---- MODULE Spec2Model ----
(***************************************************************************)
(* A model of bim-quantify: the IFC model extraction of                    *)
(* src/lib/ifc-parser.ts (spatial hierarchy, quantity resolver, quantity   *)
(* fallback chains, geometry baking) and the upload page of                *)
(* src/pages/Index.tsx, and the 3D viewer (orbit camera, measurement tool)  *)
(* of src/components/ElementList.tsx 250-629.                              *)
(*                                                                         *)
(* The web-ifc decoder is the environment: every GetLine call answers      *)
(* with one of the outcomes the code distinguishes (it throws, it returns  *)
(* a falsy value, it returns a record of some shape), chosen by \E.        *)
(* Enumerating the entities of a type (GetLineIDsWithType) answers with    *)
(* an ordered, possibly empty, list of ids.                                *)
(*                                                                         *)
(* Units: resolved quantities (areas, volumes) are integers in thousandths *)
(* of the unit, bounding-box coordinates are integers in tenths of a       *)
(* metre, so that rounding to two decimals is a real operation.            *)
(***************************************************************************)
EXTENDS Integers, Sequences, FiniteSets, Bags, TLC

VARIABLES
  \* parseIFCFile, storeys and relation passes (ifc-parser.ts 199-291)
  h_pc, h_i, h_target, h_refs, storeys, elementToStorey, h_listed,
  \* the same passes: the parent of the relation and the child reference read
  \* last
  h_parent, h_child,
  \* extractQuantityFromPsets (ifc-parser.ts 65-119)
  q_pc, q_names, q_rels, q_quantities, q_props, q_result, q_raised, q_thrown,
  \* the same function: the quantity or property record read last
  q_seen,
  \* parseIFCFile, quantity totals (ifc-parser.ts 293-383)
  a_pc, a_spaces, a_structural, grossFloorArea, totalVolume, perimeter,
  \* extractIFCGeometry (ifc-parser.ts 429-481)
  g_pc, g_model, g_elem, g_part, meshes, g_open,
  \* Index page (Index.tsx 11-54)
  buildingData, allMeshes, isLoading, fileName, selectedStoreyID,
  uploads, u_before,
  \* IFCViewer: orbit controls (ElementList.tsx 314-369)
  isDragging, isPanning, prevX, prevY, rotX, rotY, distance, target, orbit,
  camera,
  \* IFCViewer: props, toggles, scene and measurement refs (250-276, 414-557)
  v_meshes, showDimensions, measureMode, measurePointRef, measurePreviewRef,
  scene, meshGroupRef, v_last,
  \* position baking and bounding extent of one element (ifc-parser.ts
  \* 121-159, 439-472)
  b_pc, b_parts, b_positions, b_bounds

hvars == <<h_pc, h_i, h_target, h_refs, storeys, elementToStorey, h_listed,
           h_parent, h_child>>
qvars == <<q_pc, q_names, q_rels, q_quantities, q_props, q_result, q_raised,
           q_thrown, q_seen>>
avars == <<a_pc, a_spaces, a_structural, grossFloorArea, totalVolume, perimeter>>
gvars == <<g_pc, g_model, g_elem, g_part, meshes, g_open>>
uvars == <<buildingData, allMeshes, isLoading, fileName, selectedStoreyID,
           uploads, u_before>>
ovars == <<isDragging, isPanning, prevX, prevY, rotX, rotY, distance, target,
           orbit, camera>>
mvars == <<v_meshes, showDimensions, measureMode, measurePointRef,
           measurePreviewRef, scene, meshGroupRef, v_last>>
bvars == <<b_pc, b_parts, b_positions, b_bounds>>
vars == <<hvars, qvars, avars, gvars, uvars, ovars, mvars, bvars>>

\* null / undefined of the source: ids, counts and quantities are >= 0
NULL == -1

-----------------------------------------------------------------------------
(* Bounds of the model *)

MaxStoreys == 2
MaxElems == 2
MaxRels == 2
MaxRefs == 3
MaxPsetRels == 2
MaxItems == 2
MaxSpaces == 2
MaxStructural == 2
MaxMeshElems == 2
MaxParts == 2
MaxUploads == 2
MaxHelpers == 2
MaxMeasurements == 2
MaxBakeParts == 2

-----------------------------------------------------------------------------
(* Helpers *)

RECURSIVE SeqsUpTo(_, _)
\* all sequences over S of length <= n
SeqsUpTo(S, n) ==
  IF n = 0 THEN {<<>>}
  ELSE LET shorter == SeqsUpTo(S, n - 1)
       IN shorter \cup {Append(s, x) : s \in {t \in shorter : Len(t) = n - 1}, x \in S}

Range(s) == {s[i] : i \in 1..Len(s)}

-----------------------------------------------------------------------------
(* Spatial hierarchy: parseIFCFile, ifc-parser.ts 199-291 *)

\* storeyIDs.get(i): the decoder lists the storeys in discovery order
StoreyIdAt(i) == i
StoreyIds == 1..MaxStoreys
\* express ids of physical elements
ElemIds == 11..(10 + MaxElems)
\* a spatial structure that is not a storey (a building, a space)
OtherId == MaxStoreys + 1
\* Elevation?.value ?? 0, metres; may be negative
Elevations == {-1, 0}

\* a reference whose id cannot be read (elID stays null, lines 233-240)
BADREF == NULL
\* what RelatingStructure / RelatingObject can resolve to
StructureRefs == StoreyIds \cup {OtherId, NULL}
ParentRefs == StoreyIds \cup ElemIds \cup {OtherId, NULL}

\* line 206-211
NewStorey(sid, elev) == [expressID |-> sid, elevation |-> elev, elementIDs |-> <<>>]

RECURSIVE InsertByElevation(_, _)
\* insert s after every element whose elevation is <= its own
InsertByElevation(sorted, s) ==
  IF sorted = <<>> THEN <<s>>
  ELSE IF Head(sorted).elevation <= s.elevation
       THEN <<Head(sorted)>> \o InsertByElevation(Tail(sorted), s)
       ELSE <<s>> \o sorted

RECURSIVE SortByElevation(_)
\* storeys.sort((a, b) => a.elevation - b.elevation): Array.prototype.sort is stable
SortByElevation(ss) ==
  IF ss = <<>> THEN <<>>
  ELSE InsertByElevation(SortByElevation(SubSeq(ss, 1, Len(ss) - 1)), ss[Len(ss)])

\* storeys.find(s => s.expressID === id): index of the first match, 0 if none
FindStorey(ss, id) ==
  IF \E k \in 1..Len(ss) : ss[k].expressID = id
  THEN CHOOSE k \in 1..Len(ss) :
         ss[k].expressID = id /\ \A j \in 1..(k - 1) : ss[j].expressID # id
  ELSE 0

\* elementToStorey.has(id)
Has(map, id) == id \in DOMAIN map /\ map[id] # NULL

\* lines 222-229: the storey a containment relation refers to, 0: continue
ContainTarget(ss, structureRef) ==
  IF structureRef = NULL THEN 0 ELSE FindStorey(ss, structureRef)

\* lines 233-244: a readable reference is pushed and mapped, mapped before or not
ContainElement(ss, map, k, elID) ==
  IF elID # NULL
  THEN [storeys |-> [ss EXCEPT ![k].elementIDs = Append(@, elID)],
        map |-> [map EXCEPT ![elID] = ss[k].expressID]]
  ELSE [storeys |-> ss, map |-> map]

\* lines 257-267: the storey an aggregation relation attaches to, 0: continue
AggregateTarget(ss, map, parentID) ==
  IF parentID = NULL THEN 0
  ELSE LET direct == FindStorey(ss, parentID) IN
       IF direct # 0 THEN direct
       ELSE IF Has(map, parentID) THEN FindStorey(ss, map[parentID])
       ELSE 0

\* a child pushed and mapped like a contained element, mapped before or not
AggregateObjectAlways(ss, map, k, objID) == ContainElement(ss, map, k, objID)

\* lines 271-280: only a child not yet mapped is pushed and mapped
AggregateObject(ss, map, k, objID) ==
  IF objID # NULL /\ ~Has(map, objID)
  THEN [storeys |-> [ss EXCEPT ![k].elementIDs = Append(@, objID)],
        map |-> [map EXCEPT ![objID] = ss[k].expressID]]
  ELSE [storeys |-> ss, map |-> map]

\* the other parts of the program do not run
HierFrame == UNCHANGED <<qvars, avars, gvars, uvars, ovars, mvars, bvars>>

\* lines 203-212, one iteration: the storey record is read and pushed
DiscoverStorey ==
  /\ HierFrame
  /\ h_pc = "storeys"
  /\ Len(storeys) < MaxStoreys
  /\ \E elev \in Elevations :
       storeys' = Append(storeys, NewStorey(StoreyIdAt(Len(storeys) + 1), elev))
  /\ UNCHANGED <<h_pc, h_i, h_target, h_refs, elementToStorey, h_listed,
                 h_parent, h_child>>

\* line 205 throws on the next record: the catch of line 291 ends the whole
\* block, the sort of line 213 and both relation passes are not run
DiscoverStoreyThrows ==
  /\ HierFrame
  /\ h_pc = "storeys"
  /\ h_pc' = "done"
  /\ UNCHANGED <<h_i, h_target, h_refs, storeys, elementToStorey, h_listed,
                 h_parent, h_child>>

\* the loop of line 203 ends; line 213
SortStoreys ==
  /\ HierFrame
  /\ h_pc = "storeys"
  /\ storeys' = SortByElevation(storeys)
  /\ h_pc' = "contain"
  /\ UNCHANGED <<h_i, h_target, h_refs, elementToStorey, h_listed,
                 h_parent, h_child>>

\* lines 221-231: the next containment relation is read and its storey looked
\* up; a relation whose structure is no discovered storey is passed over
ContainOpen ==
  /\ HierFrame
  /\ h_pc = "contain"
  /\ h_i <= MaxRels
  /\ \E structureRef \in StructureRefs :
       LET k == ContainTarget(storeys, structureRef) IN
       IF k = 0
       THEN /\ h_i' = h_i + 1
            /\ UNCHANGED <<h_pc, h_target>>
       ELSE /\ h_pc' = "containRefs"
            /\ h_target' = k
            /\ UNCHANGED h_i
  /\ UNCHANGED <<h_refs, storeys, elementToStorey, h_listed,
                 h_parent, h_child>>

\* line 221 throws (or the record has no readable shape): catch { continue }
ContainThrows ==
  /\ HierFrame
  /\ h_pc = "contain"
  /\ h_i <= MaxRels
  /\ h_i' = h_i + 1
  /\ UNCHANGED <<h_pc, h_target, h_refs, storeys, elementToStorey, h_listed,
                 h_parent, h_child>>

\* lines 232-245, one reference of RelatedElements
ContainRef ==
  /\ HierFrame
  /\ h_pc = "containRefs"
  /\ h_refs < MaxRefs
  /\ \E elRef \in ElemIds \cup {BADREF} :
       LET r == ContainElement(storeys, elementToStorey, h_target, elRef) IN
       /\ storeys' = r.storeys
       /\ elementToStorey' = r.map
       /\ h_listed' = h_listed \cup ({elRef} \ {BADREF})
  /\ h_refs' = h_refs + 1
  /\ UNCHANGED <<h_pc, h_i, h_target, h_parent, h_child>>

\* line 232: RelatedElements is absent or exhausted
ContainClose ==
  /\ HierFrame
  /\ h_pc = "containRefs"
  /\ h_pc' = "contain"
  /\ h_i' = h_i + 1
  /\ h_target' = 0
  /\ UNCHANGED <<h_refs, storeys, elementToStorey, h_listed,
                 h_parent, h_child>>

\* the loop of line 219 ends
ContainEnd ==
  /\ HierFrame
  /\ h_pc = "contain"
  /\ h_pc' = "aggregate"
  /\ h_i' = 1
  /\ UNCHANGED <<h_target, h_refs, storeys, elementToStorey, h_listed,
                 h_parent, h_child>>

\* lines 256-268: the next aggregation relation is read and its storey looked up
AggregateOpen ==
  /\ HierFrame
  /\ h_pc = "aggregate"
  /\ h_i <= MaxRels
  /\ \E parentID \in ParentRefs :
       LET k == AggregateTarget(storeys, elementToStorey, parentID) IN
       /\ IF k = 0
          THEN /\ h_i' = h_i + 1
               /\ UNCHANGED <<h_pc, h_target>>
          ELSE /\ h_pc' = "aggregateRefs"
               /\ h_target' = k
               /\ UNCHANGED h_i
       /\ h_parent' = parentID
  /\ UNCHANGED <<h_refs, storeys, elementToStorey, h_listed, h_child>>

\* line 256 throws: catch { continue }
AggregateThrows ==
  /\ HierFrame
  /\ h_pc = "aggregate"
  /\ h_i <= MaxRels
  /\ h_i' = h_i + 1
  /\ h_parent' = NULL
  /\ UNCHANGED <<h_pc, h_target, h_refs, storeys, elementToStorey, h_listed,
                 h_child>>

\* lines 269-281, one reference of RelatedObjects
AggregateRef ==
  /\ HierFrame
  /\ h_pc = "aggregateRefs"
  /\ h_refs < MaxRefs
  /\ \E objRef \in ElemIds \cup {BADREF} :
       LET r == AggregateObject(storeys, elementToStorey, h_target, objRef) IN
       /\ storeys' = r.storeys
       /\ elementToStorey' = r.map
       /\ h_child' = objRef
  /\ h_refs' = h_refs + 1
  /\ UNCHANGED <<h_pc, h_i, h_target, h_listed, h_parent>>

\* line 269: RelatedObjects is absent or exhausted
AggregateClose ==
  /\ HierFrame
  /\ h_pc = "aggregateRefs"
  /\ h_pc' = "aggregate"
  /\ h_i' = h_i + 1
  /\ h_target' = 0
  /\ h_parent' = NULL
  /\ h_child' = NULL
  /\ UNCHANGED <<h_refs, storeys, elementToStorey, h_listed>>

\* the loop of line 254 ends; lines 409-411: the storeys are returned
AggregateEnd ==
  /\ HierFrame
  /\ h_pc = "aggregate"
  /\ h_pc' = "done"
  /\ h_parent' = NULL
  /\ UNCHANGED <<h_i, h_target, h_refs, storeys, elementToStorey, h_listed, h_child>>

HierNext ==
  \/ DiscoverStorey \/ DiscoverStoreyThrows \/ SortStoreys
  \/ ContainOpen \/ ContainThrows \/ ContainRef \/ ContainClose \/ ContainEnd
  \/ AggregateOpen \/ AggregateThrows \/ AggregateRef \/ AggregateClose \/ AggregateEnd

-----------------------------------------------------------------------------
(* Quantity resolver: extractQuantityFromPsets, ifc-parser.ts 65-119 *)

\* a value that is not a number (typeof val !== 'number')
NOTNUM == -2
\* a collection that cannot be iterated (for..of throws a TypeError)
NONITER == -2

\* the candidate lists parseIFCFile passes (lines 300-302, 312-314, 344-346, 395-397)
SpaceAreaNames == <<"GrossFloorArea", "NetFloorArea", "Area", "GrossArea", "NetArea">>
SlabAreaNames == <<"GrossArea", "NetArea", "Area", "GrossSideArea">>
VolumeNames == <<"NetVolume", "GrossVolume", "Volume">>
ElementAreaNames == <<"GrossArea", "NetArea", "Area", "GrossSideArea", "NetSideArea",
                      "GrossFloorArea", "NetFloorArea">>
NameLists == {SpaceAreaNames, SlabAreaNames, VolumeNames, ElementAreaNames}

\* the names a quantity or property record can carry; NoName: no Name attribute
NoName == "(none)"
RecordNames == {"Area", "GrossSideArea", "NetVolume", "Width", NoName}

\* what one value accessor (X?.value) of a record can give
AreaValues == {NULL, NOTNUM, 1254}
VolumeValues == {NULL, NOTNUM, 2500}
LengthValues == {NULL, NOTNUM, 300}
NominalValues == {NULL, NOTNUM, 42}
\* what the resolver can return
ResolvedValues == {1254, 2500, 300, 42}

\* a test that looks at the first candidate name only
IncludesFirst(names, name) == names # <<>> /\ names[1] = name

\* quantityNames.includes(name), lines 90 and 103
Includes(names, name) == \E k \in 1..Len(names) : names[k] = name

\* a ?? b
Coalesce(a, b) == IF a # NULL THEN a ELSE b

\* lines 91-94
QuantityValue(q) ==
  Coalesce(q.AreaValue, Coalesce(q.VolumeValue, Coalesce(q.LengthValue, q.NominalValue)))

\* val != null && typeof val === 'number', lines 95 and 105
IsNumber(val) == val # NULL /\ val # NOTNUM

\* number of references in a collection the decoder hands out: absent, not
\* iterable, or a list of 0..MaxItems references
Collections == {NULL, NONITER} \cup (0..MaxItems)

\* a quantity or property record as the resolver reads it: its name and the
\* value the accessors give
Entry(kind, name, value) == [kind |-> kind, name |-> name, value |-> value]
NoEntry == Entry("none", NoName, NULL)

QtyFrame == UNCHANGED <<hvars, avars, gvars, uvars, ovars, mvars, bvars>>

\* return val / return null
QReturn(val) ==
  /\ q_pc' = "done"
  /\ q_result' = val
  /\ UNCHANGED <<q_names, q_rels, q_quantities, q_props, q_raised, q_thrown>>

\* an exception that no try block catches leaves the function
QOuterCatchMissing ==
  /\ q_pc' = "done"
  /\ q_raised' = TRUE
  /\ q_thrown' = TRUE
  /\ UNCHANGED <<q_names, q_rels, q_quantities, q_props, q_result>>

\* lines 71, 115-118: an exception outside the relation loop body is caught
\* and ignored, line 118 returns null
QOuterCatch ==
  /\ q_pc' = "done"
  /\ q_result' = NULL
  /\ q_thrown' = TRUE
  /\ UNCHANGED <<q_names, q_rels, q_quantities, q_props, q_raised>>

\* lines 79, 110-112: an exception inside the relation loop body: continue
QInnerCatch ==
  /\ q_pc' = "rel"
  /\ q_rels' = q_rels - 1
  /\ q_thrown' = TRUE
  /\ UNCHANGED <<q_names, q_quantities, q_props, q_result, q_raised>>

\* line 77, continue / end of the loop body: the next relation
QNextRelation ==
  /\ q_pc' = "rel"
  /\ q_rels' = q_rels - 1
  /\ UNCHANGED <<q_names, q_quantities, q_props, q_result, q_raised, q_thrown>>

\* lines 72-76: the entity record
QEntity ==
  /\ QtyFrame
  /\ q_pc = "entity"
  /\ UNCHANGED q_seen
  /\ \/ QOuterCatch                       \* GetLine throws
     \/ QReturn(NULL)                     \* !psets, or no IsDefinedBy
     \/ QOuterCatch                       \* IsDefinedBy is not iterable
     \/ \E n \in 0..MaxPsetRels :
          /\ q_pc' = "rel"
          /\ q_rels' = n
          /\ UNCHANGED <<q_names, q_quantities, q_props, q_result, q_raised, q_thrown>>

\* lines 77-86: one relation of IsDefinedBy, down to its property set
QRelation ==
  /\ QtyFrame
  /\ q_pc = "rel"
  /\ UNCHANGED q_seen
  /\ \/ q_rels = 0 /\ QReturn(NULL)       \* line 118
     \/ /\ q_rels > 0
        /\ \/ QNextRelation               \* line 78: !rel || !rel.value
           \/ QInnerCatch                 \* line 80 or 84: GetLine throws
           \/ QNextRelation               \* no relLine, no definition, pset null
           \/ \E nq \in Collections, np \in Collections :
                /\ q_pc' = "quantities"
                /\ q_quantities' = nq
                /\ q_props' = np
                /\ UNCHANGED <<q_names, q_rels, q_result, q_raised, q_thrown>>

\* lines 86-98: one quantity of the property set
QQuantity ==
  /\ QtyFrame
  /\ q_pc = "quantities"
  /\ \/ /\ q_quantities \in {NULL, 0}     \* no Quantities, or all visited
        /\ q_pc' = "props"
        /\ UNCHANGED <<q_names, q_rels, q_quantities, q_props, q_result, q_raised, q_thrown,
                       q_seen>>
     \/ q_quantities = NONITER /\ QInnerCatch /\ UNCHANGED q_seen
     \/ /\ q_quantities > 0
        /\ \/ QInnerCatch /\ UNCHANGED q_seen    \* line 89: GetLine throws
           \/ \E name \in RecordNames, av \in AreaValues, vv \in VolumeValues,
                 lv \in LengthValues, nv \in NominalValues :
                LET q == [Name |-> name, AreaValue |-> av, VolumeValue |-> vv,
                          LengthValue |-> lv, NominalValue |-> nv]
                    val == QuantityValue(q)
                IN /\ q_seen' = Entry("quantity", name, val)
                   /\ IF name # NoName /\ Includes(q_names, name) /\ IsNumber(val)
                      THEN QReturn(val)
                      ELSE /\ q_quantities' = q_quantities - 1
                           /\ UNCHANGED <<q_pc, q_names, q_rels, q_props, q_result, q_raised,
                                          q_thrown>>
           \/ /\ q_quantities' = q_quantities - 1   \* line 88, or no record
              /\ UNCHANGED <<q_pc, q_names, q_rels, q_props, q_result, q_raised, q_thrown,
                             q_seen>>

\* lines 99-108: one simple property of the property set
QProperty ==
  /\ QtyFrame
  /\ q_pc = "props"
  /\ \/ q_props \in {NULL, 0} /\ QNextRelation /\ UNCHANGED q_seen
     \/ q_props = NONITER /\ QInnerCatch /\ UNCHANGED q_seen
     \/ /\ q_props > 0
        /\ \/ QInnerCatch /\ UNCHANGED q_seen    \* line 102: GetLine throws
           \/ \E name \in RecordNames, nv \in NominalValues :
                /\ q_seen' = Entry("property", name, nv)
                /\ IF name # NoName /\ Includes(q_names, name) /\ IsNumber(nv)
                   THEN QReturn(nv)
                   ELSE /\ q_props' = q_props - 1
                        /\ UNCHANGED <<q_pc, q_names, q_rels, q_quantities, q_result, q_raised,
                                       q_thrown>>
           \/ /\ q_props' = q_props - 1   \* line 101, or no record
              /\ UNCHANGED <<q_pc, q_names, q_rels, q_quantities, q_result, q_raised, q_thrown,
                             q_seen>>

QtyNext == QEntity \/ QRelation \/ QQuantity \/ QProperty

-----------------------------------------------------------------------------
(* Quantity totals: parseIFCFile, ifc-parser.ts 293-383 *)

\* lines 48-54
STRUCTURAL_TYPES == <<"IFCWALL", "IFCWALLSTANDARDCASE", "IFCSLAB", "IFCCOLUMN", "IFCBEAM">>

\* what computeBoundingBox returns for an entity: null or its bounds (tenths of a metre)
BoxA == [minX |-> 0, minY |-> 0, minZ |-> 0, maxX |-> 40, maxY |-> 25, maxZ |-> 3]
BoxB == [minX |-> 10, minY |-> 10, minZ |-> -30, maxX |-> 23, maxY |-> 17, maxZ |-> -27]
\* a box as low as BoxA, of another footprint
BoxC == [minX |-> 0, minY |-> 0, minZ |-> 0, maxX |-> 12, maxY |-> 11, maxZ |-> 3]
NoBox == [minX |-> 0, minY |-> 0, minZ |-> 0, maxX |-> NULL, maxY |-> NULL, maxZ |-> NULL]
BoundingBoxes == {NoBox, BoxA, BoxB, BoxC}

\* the entities of the model file, as the decoder and the resolver see them:
\* the resolved area (SlabAreaNames), the resolved volume, the bounding box
Entities ==
  [type : {"IFCSLAB"}, area : {NULL, 1254}, volume : {NULL, 2500}, bb : BoundingBoxes]
  \cup [type : {"IFCWALL", "IFCDOOR"}, area : {NULL}, volume : {NULL, 2500},
        bb : BoundingBoxes]

\* GetLineIDsWithType(modelID, type), over the entities of the file
RECURSIVE WithType(_, _)
WithType(ents, type) ==
  IF ents = <<>> THEN <<>>
  ELSE IF Head(ents).type = type
       THEN <<Head(ents)>> \o WithType(Tail(ents), type)
       ELSE WithType(Tail(ents), type)

\* Math.round(x * 100) / 100, on thousandths: half rounds up
Round2(x) == ((x + 5) \div 10) * 10

\* (bb.maxX - bb.minX) * (bb.maxY - bb.minY), in thousandths of a square metre
BoxArea(bb) == (bb.maxX - bb.minX) * (bb.maxY - bb.minY) * 10
\* (bb.maxX - bb.minX) * (bb.maxY - bb.minY) * (bb.maxZ - bb.minZ), in thousandths
BoxVolume(bb) == (bb.maxX - bb.minX) * (bb.maxY - bb.minY) * (bb.maxZ - bb.minZ)

RECURSIVE SumSpaces(_, _)
\* lines 299-307: acc is [total, found]
SumSpaces(spaces, acc) ==
  IF spaces = <<>> THEN acc
  ELSE SumSpaces(Tail(spaces),
                 IF Head(spaces) # NULL
                 THEN [total |-> acc.total + Head(spaces), found |-> TRUE]
                 ELSE acc)

RECURSIVE SumSlabAreas(_, _)
\* lines 311-319
SumSlabAreas(slabs, acc) ==
  IF slabs = <<>> THEN acc
  ELSE SumSlabAreas(Tail(slabs),
                    IF Head(slabs).area # NULL
                    THEN [total |-> acc.total + Head(slabs).area, found |-> TRUE]
                    ELSE acc)

RECURSIVE SumSlabBoxes(_, _)
\* lines 324-330
SumSlabBoxes(slabs, acc) ==
  IF slabs = <<>> THEN acc
  ELSE SumSlabBoxes(Tail(slabs),
                    IF Head(slabs).bb # NoBox
                    THEN [total |-> acc.total + BoxArea(Head(slabs).bb), found |-> TRUE]
                    ELSE acc)

\* the slab tier is consulted whatever the space tier found
SlabTierAlways(acc, slabs) == SumSlabAreas(slabs, acc)

\* lines 308-320: if (!found), the slabs' area properties
SlabTier(acc, slabs) == IF ~acc.found THEN SumSlabAreas(slabs, acc) ELSE acc

\* lines 321-331: if (!found), the slabs' bounding boxes
BoxTier(acc, slabs) == IF ~acc.found THEN SumSlabBoxes(slabs, acc) ELSE acc

\* lines 294-333
GrossFloorAreaOf(spaces, ents) ==
  LET slabs == WithType(ents, "IFCSLAB")
      acc == BoxTier(SlabTier(SumSpaces(spaces, [total |-> 0, found |-> FALSE]), slabs),
                     slabs)
  IN IF acc.found THEN Round2(acc.total) ELSE NULL

\* the bounding box is added for every entity, resolved or not
VolumeOfEntityBoth(e, acc) ==
  LET a == IF e.volume # NULL
           THEN [total |-> acc.total + e.volume, found |-> TRUE] ELSE acc
  IN IF e.bb # NoBox
     THEN [total |-> a.total + BoxVolume(e.bb), found |-> TRUE] ELSE a

\* lines 344-357: the resolved volume, else this entity's bounding-box volume
VolumeOfEntity(e, acc) ==
  IF e.volume # NULL
  THEN [total |-> acc.total + e.volume, found |-> TRUE]
  ELSE IF e.bb # NoBox
       THEN [total |-> acc.total + BoxVolume(e.bb), found |-> TRUE]
       ELSE acc

RECURSIVE SumVolumes(_, _)
\* lines 343-358
SumVolumes(ents, acc) ==
  IF ents = <<>> THEN acc
  ELSE SumVolumes(Tail(ents), VolumeOfEntity(Head(ents), acc))

RECURSIVE SumTypes(_, _, _)
\* lines 340-360
SumTypes(types, ents, acc) ==
  IF types = <<>> THEN acc
  ELSE SumTypes(Tail(types), ents, SumVolumes(WithType(ents, Head(types)), acc))

\* lines 336-362
TotalVolumeOf(ents) ==
  LET acc == SumTypes(STRUCTURAL_TYPES, ents, [total |-> 0, found |-> FALSE])
  IN IF acc.found THEN Round2(acc.total) ELSE NULL

RECURSIVE FootprintLastOnTie(_, _)
\* the box with the lowest minZ, the last one on a tie
FootprintLastOnTie(slabs, footprintBB) ==
  IF slabs = <<>> THEN footprintBB
  ELSE LET bb == Head(slabs).bb IN
       FootprintLastOnTie(Tail(slabs),
                          IF bb # NoBox /\ (footprintBB = NoBox \/ bb.minZ <= footprintBB.minZ)
                          THEN bb ELSE footprintBB)

RECURSIVE Footprint(_, _)
\* lines 370-377: the box with the lowest minZ, the first one on a tie
Footprint(slabs, footprintBB) ==
  IF slabs = <<>> THEN footprintBB
  ELSE LET bb == Head(slabs).bb IN
       Footprint(Tail(slabs),
                 IF bb # NoBox /\ (footprintBB = NoBox \/ bb.minZ < footprintBB.minZ)
                 THEN bb ELSE footprintBB)

\* lines 365-383; 2 * (w + h) in thousandths of a metre
PerimeterOf(ents) ==
  LET footprintBB == Footprint(WithType(ents, "IFCSLAB"), NoBox)
  IN IF footprintBB # NoBox
     THEN Round2(2 * ((footprintBB.maxX - footprintBB.minX)
                      + (footprintBB.maxY - footprintBB.minY)) * 100)
     ELSE NULL

\* the resolver's answers for the space entities (SpaceAreaNames)
SpaceAreas == {NULL, 1254}

AggFrame == UNCHANGED <<hvars, qvars, gvars, uvars, ovars, mvars, bvars>>

\* lines 294-333
ComputeGrossFloorArea ==
  /\ AggFrame
  /\ a_pc = "gfa"
  /\ grossFloorArea' = GrossFloorAreaOf(a_spaces, a_structural)
  /\ a_pc' = "volume"
  /\ UNCHANGED <<a_spaces, a_structural, totalVolume, perimeter>>

\* lines 336-362
ComputeTotalVolume ==
  /\ AggFrame
  /\ a_pc = "volume"
  /\ totalVolume' = TotalVolumeOf(a_structural)
  /\ a_pc' = "perimeter"
  /\ UNCHANGED <<a_spaces, a_structural, grossFloorArea, perimeter>>

\* lines 365-383
ComputePerimeter ==
  /\ AggFrame
  /\ a_pc = "perimeter"
  /\ perimeter' = PerimeterOf(a_structural)
  /\ a_pc' = "done"
  /\ UNCHANGED <<a_spaces, a_structural, grossFloorArea, totalVolume>>

AggNext == ComputeGrossFloorArea \/ ComputeTotalVolume \/ ComputePerimeter

-----------------------------------------------------------------------------
(* Geometry extraction: extractIFCGeometry, ifc-parser.ts 429-481 *)

\* a geometric part of the file: its geometry can be read and baked, or
\* reading it throws (GetGeometry, GetVertexArray or GetIndexArray)
PartKinds == {"ok", "bad"}
\* the flat meshes StreamAllMeshes hands to the callback: per element, its parts
GeometryModels == SeqsUpTo(SeqsUpTo(PartKinds, MaxParts), MaxMeshElems)

\* flatMesh.expressID of the k-th streamed element
MeshExpressID(k) == 10 + k

GeomFrame == UNCHANGED <<hvars, qvars, avars, uvars, ovars, mvars, bvars>>

\* line 439-441: the callback is entered for the next flat mesh
StreamMesh ==
  /\ GeomFrame
  /\ g_pc = "stream"
  /\ g_elem <= Len(g_model)
  /\ g_pc' = "parts"
  /\ g_part' = 1
  /\ UNCHANGED <<g_model, g_elem, meshes, g_open>>

\* lines 442-470: the part is read, baked, pushed, and its handle released
BakePart ==
  /\ GeomFrame
  /\ g_pc = "parts"
  /\ g_part <= Len(g_model[g_elem])
  /\ g_model[g_elem][g_part] = "ok"
  /\ meshes' = Append(meshes, [expressID |-> MeshExpressID(g_elem), part |-> g_part])
  /\ g_part' = g_part + 1
  /\ UNCHANGED <<g_pc, g_model, g_elem, g_open>>

\* lines 443-446 throw: nothing in the callback or in extractIFCGeometry
\* catches, the promise rejects and the meshes collected so far are lost;
\* a handle acquired at line 443 before the throw is never deleted
BakePartThrows ==
  /\ GeomFrame
  /\ g_pc = "parts"
  /\ g_part <= Len(g_model[g_elem])
  /\ g_model[g_elem][g_part] = "bad"
  /\ g_pc' = "rejected"
  /\ \E acquired \in BOOLEAN : g_open' = IF acquired THEN g_open + 1 ELSE g_open
  /\ UNCHANGED <<g_model, g_elem, g_part, meshes>>

\* line 441: the loop over the parts ends, the callback returns
MeshDone ==
  /\ GeomFrame
  /\ g_pc = "parts"
  /\ g_part > Len(g_model[g_elem])
  /\ g_pc' = "stream"
  /\ g_elem' = g_elem + 1
  /\ UNCHANGED <<g_model, g_part, meshes, g_open>>

\* lines 474-480: StreamAllMeshes returns, the meshes are returned
StreamEnd ==
  /\ GeomFrame
  /\ g_pc = "stream"
  /\ g_elem > Len(g_model)
  /\ g_pc' = "done"
  /\ UNCHANGED <<g_model, g_elem, g_part, meshes, g_open>>

GeomNext == StreamMesh \/ BakePart \/ BakePartThrows \/ MeshDone \/ StreamEnd

-----------------------------------------------------------------------------
(* Upload page: Index.tsx 11-54, UploadZone.tsx 13-31 *)

\* files the user can hand over
Files == {"a.ifc", "b.ifc", "broken.ifc", "notes.txt"}
\* file.name.toLowerCase().endsWith('.ifc'), UploadZone.tsx line 18
EndsWithIfc(f) == f # "notes.txt"
\* a file both tasks can open; the tasks reject on any other
IsModelFile(f) == f \in {"a.ifc", "b.ifc"}
NoFile == ""

\* the storeys parseIFCFile returns for a model file
StoreysOf(f) ==
  IF f = "a.ifc"
  THEN <<[expressID |-> 1, elementIDs |-> <<11>>], [expressID |-> 2, elementIDs |-> <<>>]>>
  ELSE IF f = "b.ifc" THEN <<[expressID |-> 1, elementIDs |-> <<12>>]>>
  ELSE <<>>

\* the express ids of the meshes extractIFCGeometry returns for a model file
MeshesOf(f) ==
  IF f = "a.ifc" THEN <<11, 12>>
  ELSE IF f = "b.ifc" THEN <<12, 13>>
  ELSE <<>>

Uploads == 1..MaxUploads

\* useState(null), line 12; from: the upload attempt that produced the value
NoData == [from |-> 0, file |-> NoFile, storeys |-> <<>>]
\* useState([]), line 13
NoMeshes == [from |-> 0, file |-> NoFile, list |-> <<>>]
NoUpload == [stage |-> "idle", file |-> NoFile, parse |-> "pending", geom |-> "pending",
             inFlightAtStart |-> {}]

\* a filter that keeps every mesh
FilterMeshesKeepAll(list, allowedIDs) == list

RECURSIVE FilterMeshes(_, _)
\* allMeshes.filter(m => allowedIDs.has(m.expressID)), line 51
FilterMeshes(list, allowedIDs) ==
  IF list = <<>> THEN <<>>
  ELSE IF Head(list) \in allowedIDs
       THEN <<Head(list)>> \o FilterMeshes(Tail(list), allowedIDs)
       ELSE FilterMeshes(Tail(list), allowedIDs)

\* lines 38-54
filteredMeshes ==
  IF selectedStoreyID = NULL \/ buildingData = NoData THEN allMeshes.list
  ELSE LET k == FindStorey(buildingData.storeys, selectedStoreyID) IN
       IF k = 0 THEN allMeshes.list
       ELSE FilterMeshes(allMeshes.list, Range(buildingData.storeys[k].elementIDs))

\* what the page shows of the model: hierarchy and figures, and the viewer's meshes
DisplayedModel == [data |-> buildingData, meshes |-> allMeshes, shown |-> filteredMeshes]
NoView == [upload |-> 0, view |-> [data |-> NoData, meshes |-> NoMeshes, shown |-> <<>>]]

InFlight(u) == uploads[u].stage \in {"reading", "running"}

UploadFrame == UNCHANGED <<hvars, qvars, avars, gvars, ovars, mvars, bvars>>

\* lines 18-21: the synchronous part of handleFileSelected
handleFileSelected(u, f) ==
  /\ uploads[u].stage = "idle"
  /\ \A v \in Uploads : v < u => uploads[v].stage # "idle"
  /\ isLoading' = TRUE
  /\ fileName' = f
  /\ selectedStoreyID' = NULL
  /\ uploads' = [uploads EXCEPT ![u] =
                   [stage |-> "reading", file |-> f, parse |-> "pending",
                    geom |-> "pending",
                    inFlightAtStart |-> {v \in Uploads : InFlight(v)}]]
  /\ u_before' = [upload |-> u, view |-> DisplayedModel]
  /\ UNCHANGED <<buildingData, allMeshes>>

\* UploadZone.tsx lines 13-23: a dropped file is taken when its name ends with .ifc
handleDrop ==
  /\ UploadFrame
  /\ \E u \in Uploads, f \in Files : EndsWithIfc(f) /\ handleFileSelected(u, f)

\* UploadZone.tsx lines 25-31, 50-56: the input is disabled while loading
handleFileInput ==
  /\ UploadFrame
  /\ \E u \in Uploads, f \in Files : ~isLoading /\ handleFileSelected(u, f)

\* line 23-27: the buffer is read, both tasks are started
BufferReady ==
  /\ UploadFrame
  /\ \E u \in Uploads :
       /\ uploads[u].stage = "reading"
       /\ uploads' = [uploads EXCEPT ![u].stage = "running"]
       /\ UNCHANGED <<buildingData, allMeshes, isLoading, fileName, selectedStoreyID,
                      u_before>>

\* line 25: parseIFCFile settles
ParseSettles ==
  /\ UploadFrame
  /\ \E u \in Uploads, ok \in BOOLEAN :
       /\ uploads[u].stage = "running"
       /\ uploads[u].parse = "pending"
       /\ ok => IsModelFile(uploads[u].file)
       /\ uploads' = [uploads EXCEPT ![u].parse = IF ok THEN "resolved" ELSE "rejected"]
       /\ UNCHANGED <<buildingData, allMeshes, isLoading, fileName, selectedStoreyID,
                      u_before>>

\* line 26: extractIFCGeometry settles
GeometrySettles ==
  /\ UploadFrame
  /\ \E u \in Uploads, ok \in BOOLEAN :
       /\ uploads[u].stage = "running"
       /\ uploads[u].geom = "pending"
       /\ ok => IsModelFile(uploads[u].file)
       /\ uploads' = [uploads EXCEPT ![u].geom = IF ok THEN "resolved" ELSE "rejected"]
       /\ UNCHANGED <<buildingData, allMeshes, isLoading, fileName, selectedStoreyID,
                      u_before>>

\* the snapshot is published as soon as parseIFCFile resolves, the meshes
\* only if the geometry is there
PublishUnjoined(u) ==
  /\ uploads[u].stage = "running"
  /\ uploads[u].parse = "resolved"
  /\ buildingData' = [from |-> u, file |-> uploads[u].file,
                      storeys |-> StoreysOf(uploads[u].file)]
  /\ allMeshes' = IF uploads[u].geom = "resolved"
                  THEN [from |-> u, file |-> uploads[u].file,
                        list |-> MeshesOf(uploads[u].file)]
                  ELSE allMeshes
  /\ isLoading' = FALSE
  /\ uploads' = [uploads EXCEPT ![u].stage = "published"]
  /\ u_before' = IF u_before.upload = u THEN u_before ELSE NoView
  /\ UNCHANGED <<fileName, selectedStoreyID>>

\* lines 24-29, 33: Promise.all resolved; both states are set in one
\* continuation and committed in one render
Publish(u) ==
  /\ uploads[u].stage = "running"
  /\ uploads[u].parse = "resolved"
  /\ uploads[u].geom = "resolved"
  /\ buildingData' = [from |-> u, file |-> uploads[u].file,
                      storeys |-> StoreysOf(uploads[u].file)]
  /\ allMeshes' = [from |-> u, file |-> uploads[u].file,
                   list |-> MeshesOf(uploads[u].file)]
  /\ isLoading' = FALSE
  /\ uploads' = [uploads EXCEPT ![u].stage = "published"]
  /\ u_before' = IF u_before.upload = u THEN u_before ELSE NoView
  /\ UNCHANGED <<fileName, selectedStoreyID>>

PublishUpload == UploadFrame /\ \E u \in Uploads : Publish(u)

\* lines 30-33: Promise.all (or the buffer read) rejected: the error is logged
Fail(u) ==
  /\ \/ uploads[u].stage = "reading"
     \/ /\ uploads[u].stage = "running"
        /\ "rejected" \in {uploads[u].parse, uploads[u].geom}
  /\ isLoading' = FALSE
  /\ uploads' = [uploads EXCEPT ![u].stage = "failed"]
  /\ UNCHANGED <<buildingData, allMeshes, fileName, selectedStoreyID, u_before>>

FailUpload == UploadFrame /\ \E u \in Uploads : Fail(u)

\* BuildingHierarchy.tsx: onSelectStorey(null) or onSelectStorey(storey.expressID);
\* the hierarchy is rendered only when there is a snapshot
SelectStorey ==
  /\ UploadFrame
  /\ buildingData # NoData
  /\ \E s \in {NULL} \cup {buildingData.storeys[k].expressID :
                            k \in 1..Len(buildingData.storeys)} :
       selectedStoreyID' = s
  /\ u_before' = NoView
  /\ UNCHANGED <<buildingData, allMeshes, isLoading, fileName, uploads>>

UploadNext ==
  \/ handleDrop \/ handleFileInput \/ BufferReady \/ ParseSettles \/ GeometrySettles
  \/ PublishUpload \/ FailUpload \/ SelectStorey

-----------------------------------------------------------------------------
(* 3D viewer, orbit controls: IFCViewer, ElementList.tsx 314-369 (the same *)
(* code is IFCViewer.tsx 256-313)                                          *)
(*                                                                         *)
(* Angles are integers in microradians, pointer coordinates in pixels,     *)
(* lengths and world coordinates in metres.                                *)

\* Math.PI / 2, rounded down
HalfPi == 1570796
\* the 0.1 rad kept from the poles (line 358)
PoleMargin == 100000
\* 0.005 rad per pixel (lines 357-358)
RadPerPixel == 5000
\* clamp of the wheel zoom (line 367)
DistMin == 1
DistMax == 5000
\* let rotX = -0.5, rotY = 0.5; let distance = 50 (lines 318-319)
InitRotX == -500000
InitRotY == 500000
InitDistance == 50
\* the yaw is not wrapped by the code; the model stops dragging sideways here
MaxYaw == 500000

\* e.clientX, e.clientY
ClientXs == {0, 100}
ClientYs == {0, 200}
\* e.button: 0 primary, 2 secondary (1, the middle button, is handled as 2)
Buttons == {0, 2}
\* e.deltaY of a wheel event
WheelDeltas == {-1000, 99000}

Origin == <<0, 0, 0>>
\* where a pan can leave the pivot: the displacement along the camera's right
\* and up vectors is real-valued, the model keeps a few representatives
PanTargets == {Origin, <<2, 1, 1500>>, <<5, 5, 5>>}

Min2(a, b) == IF a <= b THEN a ELSE b
Max2(a, b) == IF a >= b THEN a ELSE b

\* pitch with no clamp at all: rotX + dy * 0.005
UnclampedPitch(rx, dy) == rx + dy * RadPerPixel

\* Math.max(-Math.PI / 2 + 0.1, Math.min(Math.PI / 2 - 0.1, rotX + dy * 0.005))
ClampPitch(rx, dy) ==
  Max2(-HalfPi + PoleMargin, Min2(HalfPi - PoleMargin, rx + dy * RadPerPixel))

\* the scaling of the wheel with no clamp: distance * (1 + e.deltaY * 0.001)
UnclampedDistance(d, deltaY) == (d * (1000 + deltaY)) \div 1000

\* Math.max(1, Math.min(5000, distance * (1 + e.deltaY * 0.001)))
ClampDistance(d, deltaY) ==
  Max2(DistMin, Min2(DistMax, (d * (1000 + deltaY)) \div 1000))

\* updateCamera reads the closure variables target, distance, rotY, rotX;
\* the camera is recorded by the values it was positioned with
CameraAt(t, d, rx, ry) == [target |-> t, distance |-> d, rotX |-> rx, rotY |-> ry]

\* the orbit handlers leave the React state, the refs and the scene alone
OrbitFrame == UNCHANGED <<hvars, qvars, avars, gvars, uvars, mvars, bvars>>

\* lines 333-341
onMouseDown ==
  /\ OrbitFrame
  /\ \E button \in Buttons, x \in ClientXs, y \in ClientYs :
       /\ isPanning' = IF button = 2 \/ button = 1 THEN TRUE ELSE isPanning
       /\ isDragging' = IF button = 2 \/ button = 1 THEN isDragging ELSE TRUE
       /\ prevX' = x
       /\ prevY' = y
  /\ UNCHANGED <<rotX, rotY, distance, target, orbit, camera>>

\* lines 342-363
onMouseMove ==
  /\ OrbitFrame
  /\ isDragging \/ isPanning
  /\ \E x \in ClientXs, y \in ClientYs :
       LET dx == x - prevX
           dy == y - prevY
       IN /\ IF isPanning
             THEN /\ IF dx = 0 /\ dy = 0
                     THEN UNCHANGED target
                     ELSE \E t \in PanTargets : target' = t
                  /\ UNCHANGED <<rotX, rotY>>
             ELSE /\ rotY + dx * RadPerPixel \in (-MaxYaw)..MaxYaw
                  /\ rotY' = rotY + dx * RadPerPixel
                  /\ rotX' = ClampPitch(rotX, dy)
                  /\ UNCHANGED target
          /\ prevX' = x
          /\ prevY' = y
  /\ camera' = CameraAt(target', distance, rotX', rotY')
  /\ UNCHANGED <<isDragging, isPanning, distance, orbit>>

\* line 364
onMouseUp ==
  /\ OrbitFrame
  /\ isDragging \/ isPanning
  /\ isDragging' = FALSE
  /\ isPanning' = FALSE
  /\ UNCHANGED <<prevX, prevY, rotX, rotY, distance, target, orbit, camera>>

\* lines 365-369
onWheel ==
  /\ OrbitFrame
  /\ \E deltaY \in WheelDeltas : distance' = ClampDistance(distance, deltaY)
  /\ camera' = CameraAt(target, distance', rotX, rotY)
  /\ UNCHANGED <<isDragging, isPanning, prevX, prevY, rotX, rotY, target, orbit>>

-----------------------------------------------------------------------------
(* 3D viewer, scene and measurement tool: IFCViewer, ElementList.tsx       *)
(* 214-276, 414-557, 573-613                                               *)

\* the meshes prop: an empty list, or a mesh list with its bounding box
\* (Box3.setFromObject, line 503); twice the largest dimension of "A" is more
\* than DistMax; "dot" is a mesh list of zero extent
NoModel == [name |-> "none", min |-> Origin, max |-> Origin]
ModelA == [name |-> "A", min |-> Origin, max |-> <<4, 2, 3000>>]
ModelDot == [name |-> "dot", min |-> <<1, 1, 1>>, max |-> <<1, 1, 1>>]
Models == {NoModel, ModelA, ModelDot}

\* hits[0].point: where a ray can meet the mesh group
PickPoints == {Origin, <<3, 4, 0>>, <<1, 1, 1>>}
NoPoint == <<>>

\* box.getCenter (line 547)
BoxCenter(m) == [k \in 1..3 |-> (m.min[k] + m.max[k]) \div 2]
\* Math.max(size.x, size.y, size.z) (lines 548-549)
BoxMaxDim(m) ==
  Max2(m.max[1] - m.min[1], Max2(m.max[2] - m.min[2], m.max[3] - m.min[3]))

\* (p1.distanceTo(p2)) squared, in square metres
DistanceSquared(p1, p2) ==
  (p1[1] - p2[1]) * (p1[1] - p2[1]) + (p1[2] - p2[2]) * (p1[2] - p2[2])
    + (p1[3] - p2[3]) * (p1[3] - p2[3])

\* largest label the model's points can give, in hundredths of a metre
MaxHundredths == 2000

\* dist.toFixed(2): the distance rounded to the nearest hundredth
ToFixed2(d2) ==
  CHOOSE r \in 0..MaxHundredths :
    /\ (2 * r - 1) * (2 * r - 1) <= 40000 * d2 \/ r = 0
    /\ 40000 * d2 < (2 * r + 1) * (2 * r + 1)

\* `${dist.toFixed(2)} m` (lines 218-219)
MeasurementLabel(p1, p2) == [hundredths |-> ToFixed2(DistanceSquared(p1, p2)), unit |-> "m"]
NoLabel == [hundredths |-> 0, unit |-> ""]

\* children of the scene that the component adds after mount
SceneObject(type, kind, isMeasurement, a, b, label) ==
  [type |-> type, kind |-> kind, isMeasurement |-> isMeasurement,
   a |-> a, b |-> b, label |-> label]
\* lines 481-502
MeshGroup(m) == SceneObject("Group", "meshes", FALSE, m.min, m.max, NoLabel)
\* lines 441-450: the sphere at the first point, in a group flagged isMeasurement
PreviewGroup(point) == SceneObject("Group", "preview", TRUE, point, point, NoLabel)
\* createMeasurementLine, lines 214-244: line, two end spheres, label
createMeasurementLine(p1, p2) ==
  SceneObject("Group", "measurement", TRUE, p1, p2, MeasurementLabel(p1, p2))
\* createDimensionLine, lines 176-212, for the axis 1 (x), 2 (y) or 3 (z)
DimensionLine(m, axis) ==
  SceneObject("Group", "dimension", FALSE, m.min, m.max,
              [hundredths |-> 100 * (m.max[axis] - m.min[axis]), unit |-> "m"])
\* new THREE.Box3Helper(box, ...), line 542: its type is not 'Group' nor 'Mesh'
BoxHelper(m) == SceneObject("Box3Helper", "helper", FALSE, m.min, m.max, NoLabel)
NoObject == SceneObject("", "", FALSE, NoPoint, NoPoint, NoLabel)

\* scene.children.filter(pred), as a bag; kept is the set of children pred accepts
FilterScene(sc, kept) == [o \in BagToSet(sc) \cap kept |-> sc[o]]
\* scene.add(o)
SceneAdd(sc, o) == sc (+) SetToBag({o})
\* scene.remove(o): no effect when o is not a child
SceneRemove(sc, o) == IF BagIn(o, sc) THEN sc (-) SetToBag({o}) ELSE sc
\* the children without userData.isMeasurement, lines 268-271
NotMeasurement(sc) == {o \in BagToSet(sc) : ~o.isMeasurement}
\* number of children of a kind
CountKind(sc, kind) ==
  BagCardinality(FilterScene(sc, {o \in BagToSet(sc) : o.kind = kind}))

\* the measurement handlers leave the orbit closure alone
ViewFrame == UNCHANGED <<hvars, qvars, avars, gvars, uvars, bvars>>
OrbitIdle == UNCHANGED <<isDragging, isPanning, prevX, prevY, rotX, rotY, distance>>

\* lines 472-476: every child of type 'Group' or 'Mesh' is removed
WithoutGroups(sc) ==
  FilterScene(sc, {o \in BagToSet(sc) : o.type # "Group" /\ o.type # "Mesh"})

\* lines 506-544: three dimension lines and the wireframe of the box
WithDimensions(sc, m) ==
  SceneAdd(SceneAdd(SceneAdd(SceneAdd(sc, DimensionLine(m, 1)),
                             DimensionLine(m, 2)),
                    DimensionLine(m, 3)),
           BoxHelper(m))

\* lines 468-557: the effect run for the props meshes = m, showDimensions = dims
MeshEffect(m, dims) ==
  IF m = NoModel
  THEN \* line 479
       /\ scene' = WithoutGroups(scene)
       /\ meshGroupRef' = NoObject
       /\ UNCHANGED <<target, orbit, camera>>
  ELSE /\ dims => CountKind(scene, "helper") < MaxHelpers
       /\ scene' = IF dims
                   THEN WithDimensions(SceneAdd(WithoutGroups(scene), MeshGroup(m)), m)
                   ELSE SceneAdd(WithoutGroups(scene), MeshGroup(m))
       /\ meshGroupRef' = MeshGroup(m)
       /\ IF BoxMaxDim(m) > 0
          THEN \* lines 551-556: orbit.target is the closure's target object,
               \* orbit.distance is a field of the ref object
               /\ target' = BoxCenter(m)
               /\ orbit' = [orbit EXCEPT !.distance = BoxMaxDim(m) * 2]
               /\ camera' = CameraAt(target', distance, rotX, rotY)
          ELSE UNCHANGED <<target, orbit, camera>>

\* the parent renders the viewer with another mesh list (Index.tsx 127)
SetMeshes ==
  /\ ViewFrame
  /\ OrbitIdle
  /\ \E m \in Models :
       /\ v_meshes' = m
       /\ MeshEffect(m, showDimensions)
  /\ v_last' = "load"
  /\ UNCHANGED <<showDimensions, measureMode, measurePointRef, measurePreviewRef>>

\* lines 575-576, then the effect of lines 468-557 (showDimensions is a dependency)
ToggleDimensions ==
  /\ ViewFrame
  /\ OrbitIdle
  /\ showDimensions' = ~showDimensions
  /\ MeshEffect(v_meshes, showDimensions')
  /\ v_last' = "dimensions"
  /\ UNCHANGED <<v_meshes, measureMode, measurePointRef, measurePreviewRef>>

\* lines 588-590
ToggleMeasureOff ==
  /\ measureMode' = "none"
  /\ measurePointRef' = NoPoint
  /\ UNCHANGED <<scene, measurePreviewRef>>

\* lines 586-594
ToggleMeasure ==
  /\ ViewFrame
  /\ OrbitIdle
  /\ IF measureMode = "picking"
     THEN ToggleMeasureOff /\ v_last' = "measure-off"
     ELSE /\ measureMode' = "picking"
          /\ v_last' = "measure-on"
          /\ UNCHANGED <<measurePointRef, measurePreviewRef, scene>>
  /\ UNCHANGED <<v_meshes, showDimensions, meshGroupRef, target, orbit, camera>>

\* lines 438-450
FirstPick(point) ==
  /\ CountKind(scene, "preview") < MaxMeasurements
  /\ measurePointRef' = point
  /\ scene' = SceneAdd(scene, PreviewGroup(point))
  /\ measurePreviewRef' = PreviewGroup(point)

\* the second pick with the first point kept for the next one
SecondPickKeepsPoint(point) ==
  /\ CountKind(scene, "measurement") < MaxMeasurements
  /\ scene' = SceneAdd(SceneRemove(scene, measurePreviewRef),
                       createMeasurementLine(measurePointRef, point))
  /\ measurePreviewRef' = NoObject
  /\ UNCHANGED measurePointRef

\* lines 452-460
SecondPick(point) ==
  /\ CountKind(scene, "measurement") < MaxMeasurements
  /\ scene' = SceneAdd(IF measurePreviewRef # NoObject
                       THEN SceneRemove(scene, measurePreviewRef)
                       ELSE scene,
                       createMeasurementLine(measurePointRef, point))
  /\ measurePreviewRef' = NoObject
  /\ measurePointRef' = NoPoint

\* every child of the scene is a target of the ray
RayTargetsWholeScene == BagToSet(scene)

\* line 432: the ray is tested against the children of the mesh group only
RayTargets == IF meshGroupRef # NoObject THEN {meshGroupRef} ELSE {}

\* lines 414-465: the click listener exists while measureMode is 'picking';
\* under the pointer is a child of the scene or none of them (the grid, the
\* background); with no hit among the targets the handler returns (line 434)
\* and v_last names what was under the pointer
onClick ==
  /\ ViewFrame
  /\ OrbitIdle
  /\ measureMode = "picking"
  /\ \E under \in BagToSet(scene) \cup {NoObject}, point \in PickPoints :
       IF under \notin RayTargets
       THEN /\ v_last' = IF under = NoObject THEN "miss" ELSE under.kind
            /\ UNCHANGED <<measurePointRef, measurePreviewRef, scene>>
       ELSE IF measurePointRef = NoPoint
       THEN FirstPick(point) /\ v_last' = "first"
       ELSE SecondPick(point) /\ v_last' = "second"
  /\ UNCHANGED <<v_meshes, showDimensions, measureMode, meshGroupRef, target,
                 orbit, camera>>

\* clearMeasurements with the children filter left out
clearMeasurementsPreviewOnly ==
  /\ scene' = SceneRemove(scene, measurePreviewRef)
  /\ measurePointRef' = NoPoint
  /\ measurePreviewRef' = NoObject

\* clearMeasurements, lines 267-276
clearMeasurements ==
  /\ scene' = IF measurePreviewRef # NoObject
              THEN SceneRemove(FilterScene(scene, NotMeasurement(scene)),
                               measurePreviewRef)
              ELSE FilterScene(scene, NotMeasurement(scene))
  /\ measurePointRef' = NoPoint
  /\ measurePreviewRef' = NoObject

\* lines 604-612: the clear button is rendered while measureMode is 'none'
ClearButton ==
  /\ ViewFrame
  /\ OrbitIdle
  /\ measureMode = "none"
  /\ clearMeasurements
  /\ v_last' = IF \E o \in BagToSet(scene) : o.isMeasurement
               THEN "clear" ELSE "clear-empty"
  /\ UNCHANGED <<v_meshes, showDimensions, measureMode, meshGroupRef, target,
                 orbit, camera>>

OrbitNext == onMouseDown \/ onMouseMove \/ onMouseUp \/ onWheel \/ SetMeshes

MeasureNext ==
  SetMeshes \/ ToggleDimensions \/ ToggleMeasure \/ onClick \/ ClearButton

-----------------------------------------------------------------------------
(* Position baking and bounding extent of one element: extractIFCGeometry, *)
(* ifc-parser.ts 439-472, and computeBoundingBox, ifc-parser.ts 121-159    *)
(*                                                                         *)
(* Coordinates are integers in a unit fine enough for the numbers the code *)
(* computes in double precision. A Float32Array holds single-precision     *)
(* values: the multiples of Quantum. Storing a number into it rounds the   *)
(* number to the nearest of them.                                          *)

Quantum == 4

\* storing x into a Float32Array (Math.fround)
Fround(x) == ((2 * x + Quantum) \div (2 * Quantum)) * Quantum

\* element i of a JavaScript array (zero-based)
At(arr, i) == arr[i + 1]

\* placedGeom.flatTransformation: 16 numbers, column-major
IdentityMatrix == <<1, 0, 0, 0,  0, 1, 0, 0,  0, 0, 1, 0,  0, 0, 0, 1>>
\* a pure translation by (10, 0, -6); 10 and -6 are not single-precision values
TranslationMatrix == <<1, 0, 0, 0,  0, 1, 0, 0,  0, 0, 1, 0,  10, 0, -6, 1>>
\* a quarter turn about z, x' = -y and y' = x, then a translation by (8, 3, 0)
TurnMatrix == <<0, 1, 0, 0,  -1, 0, 0, 0,  0, 0, 1, 0,  8, 3, 0, 1>>
Matrices == {IdentityMatrix, TranslationMatrix, TurnMatrix}

\* GetVertexArray: six single-precision slots per vertex, position then normal
VertexP == <<0, 0, 0, 0, 0, 4>>
VertexQ == <<4, 8, -4, 0, 4, 0>>
VertexArrays == {<<>>, VertexP, VertexQ, VertexP \o VertexQ, VertexQ \o VertexP}

\* a geometric part the decoder can read, or one for which a decoder call throws
GeometricParts ==
  [kind : {"ok"}, matrix : Matrices, verts : VertexArrays]
    \cup {[kind |-> "bad", matrix |-> IdentityMatrix, verts |-> <<>>]}

\* the transform with the matrix read row by row
BakedVertexRowMajor(matrix, vertexData, v) ==
  LET srcIdx == v * 6
      x == At(vertexData, srcIdx)
      y == At(vertexData, srcIdx + 1)
      z == At(vertexData, srcIdx + 2)
  IN << Fround(At(matrix, 0) * x + At(matrix, 1) * y + At(matrix, 2) * z + At(matrix, 3)),
        Fround(At(matrix, 4) * x + At(matrix, 5) * y + At(matrix, 6) * z + At(matrix, 7)),
        Fround(At(matrix, 8) * x + At(matrix, 9) * y + At(matrix, 10) * z + At(matrix, 11)) >>

\* lines 450-455: the three numbers stored into positions for vertex v
BakedVertex(matrix, vertexData, v) ==
  LET srcIdx == v * 6
      x == At(vertexData, srcIdx)
      y == At(vertexData, srcIdx + 1)
      z == At(vertexData, srcIdx + 2)
  IN << Fround(At(matrix, 0) * x + At(matrix, 4) * y + At(matrix, 8) * z + At(matrix, 12)),
        Fround(At(matrix, 1) * x + At(matrix, 5) * y + At(matrix, 9) * z + At(matrix, 13)),
        Fround(At(matrix, 2) * x + At(matrix, 6) * y + At(matrix, 10) * z + At(matrix, 14)) >>

RECURSIVE BakePositionsFrom(_, _, _)
\* lines 448-456: positions, for the vertices v, v + 1, ...
BakePositionsFrom(matrix, vertexData, v) ==
  IF v >= Len(vertexData) \div 6 THEN <<>>
  ELSE BakedVertex(matrix, vertexData, v) \o BakePositionsFrom(matrix, vertexData, v + 1)

\* the transform of the extent path with the translation column left out
ExtentVertexLinearOnly(matrix, verts, v) ==
  LET x == At(verts, v)
      y == At(verts, v + 1)
      z == At(verts, v + 2)
  IN << At(matrix, 0) * x + At(matrix, 4) * y + At(matrix, 8) * z,
        At(matrix, 1) * x + At(matrix, 5) * y + At(matrix, 9) * z,
        At(matrix, 2) * x + At(matrix, 6) * y + At(matrix, 10) * z >>

\* lines 140-144: tx, ty, tz of the vertex at offset v, kept as numbers
ExtentVertex(matrix, verts, v) ==
  LET x == At(verts, v)
      y == At(verts, v + 1)
      z == At(verts, v + 2)
  IN << At(matrix, 0) * x + At(matrix, 4) * y + At(matrix, 8) * z + At(matrix, 12),
        At(matrix, 1) * x + At(matrix, 5) * y + At(matrix, 9) * z + At(matrix, 13),
        At(matrix, 2) * x + At(matrix, 6) * y + At(matrix, 10) * z + At(matrix, 14) >>

\* lines 130-131: minX = Infinity, ..., maxX = -Infinity, ...
InfiniteExtent ==
  [is |-> "infinite", minX |-> 0, minY |-> 0, minZ |-> 0, maxX |-> 0, maxY |-> 0, maxZ |-> 0]

\* return null (lines 128, 154, 157)
NoExtent ==
  [is |-> "null", minX |-> 0, minY |-> 0, minZ |-> 0, maxX |-> 0, maxY |-> 0, maxZ |-> 0]

\* lines 146-148
FoldVertex(extent, t) ==
  IF extent = InfiniteExtent
  THEN [is |-> "finite", minX |-> t[1], minY |-> t[2], minZ |-> t[3],
        maxX |-> t[1], maxY |-> t[2], maxZ |-> t[3]]
  ELSE [is |-> "finite", minX |-> Min2(extent.minX, t[1]), minY |-> Min2(extent.minY, t[2]),
        minZ |-> Min2(extent.minZ, t[3]),
        maxX |-> Max2(extent.maxX, t[1]), maxY |-> Max2(extent.maxY, t[2]),
        maxZ |-> Max2(extent.maxZ, t[3])]

RECURSIVE FoldVerticesFrom(_, _, _, _)
\* lines 139-149: for (let v = 0; v < verts.length; v += 6)
FoldVerticesFrom(extent, matrix, verts, v) ==
  IF v >= Len(verts) THEN extent
  ELSE FoldVerticesFrom(FoldVertex(extent, ExtentVertex(matrix, verts, v)),
                        matrix, verts, v + 6)

BakeFrame == UNCHANGED <<hvars, qvars, avars, gvars, uvars, ovars, mvars>>

\* lines 442-470 for an element's part i: its positions are pushed, its handle
\* acquired and released
EmitPart ==
  /\ BakeFrame
  /\ b_pc.phase = "emit" /\ b_pc.i <= Len(b_parts)
  /\ b_parts[b_pc.i].kind = "ok"
  /\ b_positions' = Append(b_positions,
                           BakePositionsFrom(b_parts[b_pc.i].matrix, b_parts[b_pc.i].verts, 0))
  /\ b_pc' = [b_pc EXCEPT !.i = @ + 1]
  /\ UNCHANGED <<b_parts, b_bounds>>

\* lines 443-446 throw: nothing catches, extractIFCGeometry rejects and returns
\* no mesh; the handle of the part, if already acquired, is never released
EmitPartThrows ==
  /\ BakeFrame
  /\ b_pc.phase = "emit" /\ b_pc.i <= Len(b_parts)
  /\ b_parts[b_pc.i].kind = "bad"
  /\ \E acquired \in {0, 1} :
       b_pc' = [b_pc EXCEPT !.phase = "extent", !.i = 1, !.rejected = TRUE,
                            !.open = @ + acquired]
  /\ b_positions' = <<>>
  /\ UNCHANGED <<b_parts, b_bounds>>

\* line 441: the loop over the element's parts ends
EmitEnd ==
  /\ BakeFrame
  /\ b_pc.phase = "emit" /\ b_pc.i > Len(b_parts)
  /\ b_pc' = [b_pc EXCEPT !.phase = "extent", !.i = 1]
  /\ UNCHANGED <<b_parts, b_positions, b_bounds>>

\* lines 133-152 for part i
FoldPart ==
  /\ BakeFrame
  /\ b_pc.phase = "extent" /\ b_pc.i <= Len(b_parts)
  /\ b_parts[b_pc.i].kind = "ok"
  /\ b_bounds' = FoldVerticesFrom(b_bounds, b_parts[b_pc.i].matrix, b_parts[b_pc.i].verts, 0)
  /\ b_pc' = [b_pc EXCEPT !.i = @ + 1]
  /\ UNCHANGED <<b_parts, b_positions>>

\* lines 135-136 throw: the catch of lines 156-158 returns null; geom.delete()
\* of line 151 is skipped
FoldPartThrows ==
  /\ BakeFrame
  /\ b_pc.phase = "extent" /\ b_pc.i <= Len(b_parts)
  /\ b_parts[b_pc.i].kind = "bad"
  /\ \E acquired \in {0, 1} :
       b_pc' = [b_pc EXCEPT !.phase = "done", !.open = @ + acquired]
  /\ b_bounds' = NoExtent
  /\ UNCHANGED <<b_parts, b_positions>>

\* lines 128, 154-155: null for no part or no vertex, else the extent
FoldEnd ==
  /\ BakeFrame
  /\ b_pc.phase = "extent" /\ b_pc.i > Len(b_parts)
  /\ b_bounds' = IF b_bounds = InfiniteExtent THEN NoExtent ELSE b_bounds
  /\ b_pc' = [b_pc EXCEPT !.phase = "done"]
  /\ UNCHANGED <<b_parts, b_positions>>

BakeNext == EmitPart \/ EmitPartThrows \/ EmitEnd \/ FoldPart \/ FoldPartThrows \/ FoldEnd

-----------------------------------------------------------------------------
(* Specifications: one per part of the program; the parts share no state *)

\* The state after construction. Only the part under study runs; the others rest.
Init(part) ==
  \* parseIFCFile line 199-200
  /\ h_pc = IF part = "hierarchy" THEN "storeys" ELSE "idle"
  /\ h_i = 1
  /\ h_target = 0
  /\ h_refs = 0
  /\ storeys = <<>>
  /\ elementToStorey = [e \in ElemIds |-> NULL]
  /\ h_listed = {}
  /\ h_parent = NULL
  /\ h_child = NULL
  \* extractQuantityFromPsets is entered with one of the candidate lists
  /\ q_pc = IF part = "resolver" THEN "entity" ELSE "idle"
  /\ q_names \in IF part = "resolver" THEN NameLists ELSE {<<>>}
  /\ q_rels = 0
  /\ q_quantities = NULL
  /\ q_props = NULL
  /\ q_result = NULL
  /\ q_raised = FALSE
  /\ q_thrown = FALSE
  /\ q_seen = NoEntry
  \* parseIFCFile line 294: the file holds some spaces and structural entities
  /\ a_pc = IF part = "totals" THEN "gfa" ELSE "idle"
  /\ a_spaces \in IF part = "totals" THEN SeqsUpTo(SpaceAreas, MaxSpaces) ELSE {<<>>}
  /\ a_structural \in IF part = "totals" THEN SeqsUpTo(Entities, MaxStructural) ELSE {<<>>}
  /\ grossFloorArea = NULL
  /\ totalVolume = NULL
  /\ perimeter = NULL
  \* extractIFCGeometry line 437: the file holds some flat meshes
  /\ g_pc = IF part = "geometry" THEN "stream" ELSE "idle"
  /\ g_model \in IF part = "geometry" THEN GeometryModels ELSE {<<>>}
  /\ g_elem = 1
  /\ g_part = 0
  /\ meshes = <<>>
  /\ g_open = 0
  \* Index.tsx lines 12-16
  /\ buildingData = NoData
  /\ allMeshes = NoMeshes
  /\ isLoading = FALSE
  /\ fileName = NoFile
  /\ selectedStoreyID = NULL
  /\ uploads = [u \in Uploads |-> NoUpload]
  /\ u_before = NoView
  \* ElementList.tsx 315-331: the viewer after its mount effect
  /\ isDragging = FALSE
  /\ isPanning = FALSE
  /\ prevX = 0
  /\ prevY = 0
  /\ rotX = InitRotX
  /\ rotY = InitRotY
  /\ distance = InitDistance
  /\ target = Origin
  /\ orbit = [rotX |-> InitRotX, rotY |-> InitRotY, distance |-> InitDistance]
  /\ camera = CameraAt(Origin, InitDistance, InitRotX, InitRotY)
  \* ElementList.tsx 259-264: no model, overlay on, measurement off, no helper yet
  /\ v_meshes = NoModel
  /\ showDimensions = TRUE
  /\ measureMode = "none"
  /\ measurePointRef = NoPoint
  /\ measurePreviewRef = NoObject
  /\ scene = EmptyBag
  /\ meshGroupRef = NoObject
  /\ v_last = "mount"
  \* ifc-parser.ts 130-131, 437
  /\ b_pc = [phase |-> IF part = "bake" THEN "emit" ELSE "idle", i |-> 1,
             open |-> 0, rejected |-> FALSE]
  /\ b_parts \in IF part = "bake" THEN SeqsUpTo(GeometricParts, MaxBakeParts) ELSE {<<>>}
  /\ b_positions = <<>>
  /\ b_bounds = InfiniteExtent

SpecHier == Init("hierarchy") /\ [][HierNext]_vars

SpecQty == Init("resolver") /\ [][QtyNext]_vars

SpecAgg == Init("totals") /\ [][AggNext]_vars

SpecGeom == Init("geometry") /\ [][GeomNext]_vars

SpecUpload == Init("upload") /\ [][UploadNext]_vars

SpecOrbit == Init("orbit") /\ [][OrbitNext]_vars

SpecMeasure == Init("measure") /\ [][MeasureNext]_vars

SpecBake == Init("bake") /\ [][BakeNext]_vars

-----------------------------------------------------------------------------
(* Properties of the spatial hierarchy, under SpecHier *)

\* the storeys (indices) whose elementIDs hold element e
StoreysHolding(e) == {k \in 1..Len(storeys) : e \in Range(storeys[k].elementIDs)}

\* how often element e occurs in the elementIDs of storey k
OccurrencesIn(k, e) ==
  Cardinality({n \in 1..Len(storeys[k].elementIDs) : storeys[k].elementIDs[n] = e})

\* C1: in the hierarchy parseIFCFile returns, every element id occurs in the
\* elementIDs of at most one storey, and at most once in it.
C1_ElementInAtMostOneStorey ==
  h_pc = "done" =>
    \A e \in ElemIds :
      /\ Cardinality(StoreysHolding(e)) <= 1
      /\ \A k \in 1..Len(storeys) : OccurrencesIn(k, e) <= 1

\* C2: every element listed in the related elements of some containment
\* relation is in the elementIDs of exactly one storey of the returned
\* snapshot. h_listed holds the elements listed by the containment relations
\* that were read and refer to a discovered storey.
C2_ContainedElementInExactlyOneStorey ==
  h_pc = "done" => \A e \in h_listed : Cardinality(StoreysHolding(e)) = 1

\* C3: the returned storeys are sorted non-decreasing by elevation, storeys of
\* equal elevation in discovery order, whatever the decoder did.
C3_StoreysSortedStable ==
  h_pc = "done" =>
    \A i, j \in 1..Len(storeys) :
      i < j =>
        /\ storeys[i].elevation <= storeys[j].elevation
        /\ storeys[i].elevation = storeys[j].elevation
             => storeys[i].expressID < storeys[j].expressID

-----------------------------------------------------------------------------
(* Properties of the quantity resolver, under SpecQty *)

\* C4: extractQuantityFromPsets never raises to its caller: whatever the
\* decoder does, it returns a number or null.
C4_ResolverNeverRaises ==
  q_pc = "done" => ~q_raised /\ (q_result = NULL \/ q_result \in Nat)

\* the decoder threw during the call and the caller got null
C4_Witness == q_pc = "done" /\ q_thrown /\ q_result = NULL /\ ~q_raised

-----------------------------------------------------------------------------
(* Properties of the quantity totals, under SpecAgg *)

RECURSIVE SeqSum(_)
SeqSum(s) == IF s = <<>> THEN 0 ELSE Head(s) + SeqSum(Tail(s))

\* the areas the space entities resolve
ResolvedSpaceAreas == SelectSeq(a_spaces, LAMBDA v : v # NULL)
\* the slabs of the file, in file order
SlabsOfFile == SelectSeq(a_structural, LAMBDA e : e.type = "IFCSLAB")
\* the area properties the slabs resolve
ResolvedSlabAreas ==
  LET with == SelectSeq(SlabsOfFile, LAMBDA e : e.area # NULL)
  IN [k \in 1..Len(with) |-> with[k].area]
\* the bounding-box estimates of the slabs that have a bounding box
SlabBoxAreas ==
  LET with == SelectSeq(SlabsOfFile, LAMBDA e : e.bb # NoBox)
  IN [k \in 1..Len(with) |-> BoxArea(with[k].bb)]

\* C5: gross floor area comes from exactly one tier: the resolving spaces if
\* any space resolves; else the resolving slabs if any slab resolves; else
\* the slabs' bounding boxes; null when no tier gives a value. The sum is
\* rounded to two decimals.
C5_GrossFloorAreaOneTier ==
  a_pc \in {"volume", "perimeter", "done"} =>
    grossFloorArea =
      IF ResolvedSpaceAreas # <<>> THEN Round2(SeqSum(ResolvedSpaceAreas))
      ELSE IF ResolvedSlabAreas # <<>> THEN Round2(SeqSum(ResolvedSlabAreas))
      ELSE IF SlabBoxAreas # <<>> THEN Round2(SeqSum(SlabBoxAreas))
      ELSE NULL

\* one space resolves and another does not, while a slab bears an area
\* property and a bounding box: the result is the resolving space alone
C5_Witness ==
  /\ a_pc = "done"
  /\ Len(ResolvedSpaceAreas) = 1
  /\ Len(a_spaces) = 2
  /\ ResolvedSlabAreas # <<>>
  /\ SlabBoxAreas # <<>>
  /\ grossFloorArea = Round2(ResolvedSpaceAreas[1])

\* the entities of the structural types, in file order
StructuralOfFile ==
  SelectSeq(a_structural, LAMBDA e : e.type \in Range(STRUCTURAL_TYPES))
\* what each structural entity contributes: its resolved volume, else its
\* own bounding-box volume; entities with neither contribute nothing
VolumeContributions ==
  LET with == SelectSeq(StructuralOfFile, LAMBDA e : e.volume # NULL \/ e.bb # NoBox)
  IN [k \in 1..Len(with) |->
        IF with[k].volume # NULL THEN with[k].volume ELSE BoxVolume(with[k].bb)]

\* C6: total volume is the (rounded) sum over the structural entities of the
\* resolved volume, or of the entity's own bounding-box volume when the
\* resolver gave null for that entity; null when no entity contributed.
C6_TotalVolumePerEntityFallback ==
  a_pc \in {"perimeter", "done"} =>
    totalVolume =
      IF VolumeContributions # <<>> THEN Round2(SeqSum(VolumeContributions)) ELSE NULL

\* two structural entities, one with a resolved volume (and a bounding box),
\* one with a bounding box only
C6_Witness ==
  /\ a_pc = "done"
  /\ Len(StructuralOfFile) = 2
  /\ \E i, j \in 1..2 :
       /\ StructuralOfFile[i].volume # NULL /\ StructuralOfFile[i].bb # NoBox
       /\ StructuralOfFile[j].volume = NULL /\ StructuralOfFile[j].bb # NoBox
       /\ totalVolume = Round2(StructuralOfFile[i].volume
                               + BoxVolume(StructuralOfFile[j].bb))

-----------------------------------------------------------------------------
(* Properties of the geometry extraction, under SpecGeom *)

\* the parts of the file that can be read and baked
BakeableParts ==
  {<<k, n>> \in (1..Len(g_model)) \X (1..MaxParts) :
     n <= Len(g_model[k]) /\ g_model[k][n] = "ok"}

\* C7: a part that cannot be read or baked is skipped alone: the extraction
\* does not fail, and the meshes of all other parts are produced.
C7_FailingPartAloneSkipped ==
  /\ g_pc # "rejected"
  /\ g_pc = "done" =>
       \A p \in BakeableParts :
         \E n \in 1..Len(meshes) :
           meshes[n] = [expressID |-> MeshExpressID(p[1]), part |-> p[2]]

-----------------------------------------------------------------------------
(* Properties of the upload page, under SpecUpload *)

\* C8: when an upload attempt fails as a whole (parseIFCFile or
\* extractIFCGeometry rejects), the published snapshot and mesh list are
\* unchanged and the model displayed before the attempt is still displayed
\* as it was. u_before holds what was displayed when the attempt started, as
\* long as nothing but the attempt itself has acted since.
C8_FailedUploadLeavesDisplayIntact ==
  \A u \in Uploads :
    ( /\ uploads[u].stage = "failed"
      /\ "rejected" \in {uploads[u].parse, uploads[u].geom}
      /\ u_before.upload = u )
    => DisplayedModel = u_before.view

\* C9: the published snapshot and the published mesh list come from the same
\* upload attempt, or are both the initial empty values.
C9_SnapshotAndMeshesFromSameUpload ==
  /\ buildingData.from = allMeshes.from
  /\ buildingData.file = allMeshes.file
  /\ buildingData = NoData <=> allMeshes = NoMeshes

\* two uploads overlapped, one failed and one published, and the published
\* pair is that of one upload
C9_Witness ==
  \E u, v \in Uploads :
    /\ u \in uploads[v].inFlightAtStart
    /\ uploads[u].stage = "published"
    /\ uploads[v].stage = "failed"
    /\ "resolved" \in {uploads[v].parse, uploads[v].geom}
    /\ buildingData.from = u
    /\ allMeshes.from = u

\* the upload started last
LastStarted == CHOOSE u \in Uploads :
  /\ uploads[u].stage # "idle"
  /\ \A v \in Uploads : v > u => uploads[v].stage = "idle"

\* C10: when an upload of another file was started while an earlier one was
\* in flight and both have completed, the published snapshot, mesh list and
\* file name are those of the upload started later, whichever finished first.
C10_LaterUploadSupersedes ==
  \A u, v \in Uploads :
    ( /\ u \in uploads[v].inFlightAtStart
      /\ uploads[u].file # uploads[v].file
      /\ uploads[u].stage = "published"
      /\ uploads[v].stage = "published"
      /\ v = LastStarted )
    => /\ buildingData.file = uploads[v].file
       /\ allMeshes.file = uploads[v].file
       /\ fileName = uploads[v].file

-----------------------------------------------------------------------------
(* Properties of the orbit camera, under SpecOrbit *)

\* C11: after any sequence of pointer-down, pointer-move, pointer-up, wheel
\* and model-load events the camera pitch, as kept by the controller and as
\* used to place the camera, lies strictly inside (-pi/2, pi/2).
C11_PitchInsideOpenInterval ==
  /\ -HalfPi < rotX /\ rotX < HalfPi
  /\ -HalfPi < camera.rotX /\ camera.rotX < HalfPi

\* a drag has pushed the pitch against the upper limit
C11_Witness == rotX = HalfPi - PoleMargin /\ camera.rotX = rotX /\ isDragging

\* a step of the mesh effect: the orbit closure's scalars are not touched and
\* the last viewer event is a load
LoadStep ==
  /\ v_last' = "load"
  /\ UNCHANGED <<isDragging, isPanning, prevX, prevY, rotX, rotY, distance>>

\* C12: a model load with non-zero extent moves the orbit target to the
\* centre of the model's bounding box and places the camera at twice the
\* model's largest dimension from it; a load with zero extent (or an empty
\* mesh list) leaves target and camera as they were.
C12_LoadRecentersOrbit ==
  [][LoadStep =>
       IF BoxMaxDim(v_meshes') > 0
       THEN /\ target' = BoxCenter(v_meshes')
            /\ camera'.target = BoxCenter(v_meshes')
            /\ camera'.distance = 2 * BoxMaxDim(v_meshes')
       ELSE UNCHANGED <<target, camera>>]_vars

-----------------------------------------------------------------------------
(* Properties of the measurement tool, under SpecMeasure *)

\* h is d rounded to the nearest hundredth, where d * d = d2
IsHundredthsOf(h, d2) ==
  /\ h >= 0
  /\ h = 0 \/ (2 * h - 1) * (2 * h - 1) <= 40000 * d2
  /\ 40000 * d2 < (2 * h + 1) * (2 * h + 1)

\* an annotation joining p and q: a measurement group labelled with their
\* distance to two decimals and the unit
IsAnnotation(o, p, q) ==
  /\ o.kind = "measurement"
  /\ o.a = p /\ o.b = q
  /\ IsHundredthsOf(o.label.hundredths, DistanceSquared(p, q))
  /\ o.label.unit = "m"

\* a step of the click listener that met the mesh group
PickStep == measureMode = "picking" /\ v_last' \in {"first", "second"}

\* C13: while measurement mode is on, successful picks alternate. A pick with
\* no pending point records the point and adds one marker at it; a pick with a
\* pending point adds exactly one annotation joining the pending point and
\* the new one, labelled with their distance to two decimals and a unit,
\* takes the pending marker out of the scene and leaves no pending point;
\* measurement mode stays on.
C13_PicksAlternate ==
  [][PickStep =>
       /\ measureMode' = "picking"
       /\ IF measurePointRef = NoPoint
          THEN /\ v_last' = "first"
               /\ measurePointRef' \in PickPoints
               /\ scene' = scene (+) SetToBag({PreviewGroup(measurePointRef')})
               /\ measurePreviewRef' = PreviewGroup(measurePointRef')
          ELSE /\ v_last' = "second"
               /\ measurePointRef' = NoPoint
               /\ measurePreviewRef' = NoObject
               /\ \E q \in PickPoints, o \in BagToSet(scene') :
                    /\ IsAnnotation(o, measurePointRef, q)
                    /\ scene' = (scene (-) SetToBag({PreviewGroup(measurePointRef)}))
                                  (+) SetToBag({o})]_vars

\* a measurement from (0,0,0) to (3,4,0) has just been completed: 5.00 m
C13_Witness ==
  /\ v_last = "second"
  /\ measureMode = "picking"
  /\ measurePointRef = NoPoint
  /\ \E o \in BagToSet(scene) :
       IsAnnotation(o, Origin, <<3, 4, 0>>) /\ o.label.hundredths = 500

\* C14: toggling measurement mode off while a first point is pending
\* discards the point without creating an annotation: afterwards there is no
\* pending point, the pending marker is not in the scene any more, and the
\* marker reference is cleared, so that the next pick is a first pick.
C14_ToggleOffDiscardsPending ==
  [][(measureMode = "picking" /\ measureMode' = "none" /\ measurePointRef # NoPoint) =>
       /\ measurePointRef' = NoPoint
       /\ CountKind(scene', "measurement") = CountKind(scene, "measurement")
       /\ ~BagIn(PreviewGroup(measurePointRef), scene')
       /\ measurePreviewRef' = NoObject]_vars

\* C15: when measurement mode is toggled off, no measurement annotation is
\* left in the scene.
C15_ToggleOffClearsAnnotations ==
  [][(measureMode = "picking" /\ measureMode' = "none") =>
       CountKind(scene', "measurement") = 0]_vars

\* C16: after the clear action the scene holds no measurement geometry (no
\* annotation, no pending marker), there is no pending point and no marker
\* reference, so that the next pick is a first pick.
C16_ClearRemovesAllMeasurements ==
  v_last \in {"clear", "clear-empty"} =>
    /\ \A o \in BagToSet(scene) : ~o.isMeasurement /\ o.kind \notin {"measurement", "preview"}
    /\ measurePointRef = NoPoint
    /\ measurePreviewRef = NoObject

\* the clear action has just removed measurement geometry, the model is
\* still shown
C16_Witness ==
  /\ v_last = "clear"
  /\ meshGroupRef # NoObject
  /\ BagIn(meshGroupRef, scene)

-----------------------------------------------------------------------------
(* Properties of the storey filter, under SpecUpload *)

\* C17: with no storey selected the rendered mesh list is the whole published
\* mesh list; with a storey of the published snapshot selected it is exactly
\* the meshes, in order, whose element id is among that storey's elementIDs,
\* hence empty when the storey has no element.
C17_StoreyFilter ==
  /\ selectedStoreyID = NULL => filteredMeshes = allMeshes.list
  /\ \A k \in 1..Len(buildingData.storeys) :
       buildingData.storeys[k].expressID = selectedStoreyID =>
         /\ filteredMeshes =
              SelectSeq(allMeshes.list,
                        LAMBDA id : \E n \in 1..Len(buildingData.storeys[k].elementIDs) :
                                      buildingData.storeys[k].elementIDs[n] = id)
         /\ buildingData.storeys[k].elementIDs = <<>> => filteredMeshes = <<>>

\* a storey without elements is selected while meshes are published
C17_Witness ==
  /\ allMeshes.list # <<>>
  /\ \E k \in 1..Len(buildingData.storeys) :
       /\ buildingData.storeys[k].expressID = selectedStoreyID
       /\ buildingData.storeys[k].elementIDs = <<>>
  /\ filteredMeshes = <<>>

-----------------------------------------------------------------------------
(* Properties of position baking and of the bounding extent, under SpecBake *)

\* number of vertices of part k of the element
VertexCount(k) == Len(b_parts[k].verts) \div 6

\* coordinate c (0: x, 1: y, 2: z) of vertex v of part k, as the decoder gives it
InputCoord(k, v, c) == At(b_parts[k].verts, 6 * v + c)

\* row c of the column-major affine product for vertex v of part k: entry
\* 4 * j + c of the matrix multiplies input coordinate j, entry 12 + c is added
AffineCoord(k, v, c) ==
  At(b_parts[k].matrix, c) * InputCoord(k, v, 0)
    + At(b_parts[k].matrix, 4 + c) * InputCoord(k, v, 1)
    + At(b_parts[k].matrix, 8 + c) * InputCoord(k, v, 2)
    + At(b_parts[k].matrix, 12 + c)

\* the (part, vertex) pairs whose positions have been emitted
EmittedVertices ==
  {kv \in (1..Len(b_positions)) \X (0..1) : kv[2] < VertexCount(kv[1])}

\* C18: every baked position is the column-major affine product of the first
\* three of the six slots of its vertex, stored in single precision; with the
\* identity matrix it is the input position exactly, with a pure translation
\* it is the single-precision value of input + translation.
C18_BakedPositionsSinglePrecision ==
  \A k \in 1..Len(b_positions) :
    /\ Len(b_positions[k]) = 3 * VertexCount(k)
    /\ \A v \in 0..(VertexCount(k) - 1), c \in 0..2 :
         /\ At(b_positions[k], 3 * v + c) = Fround(AffineCoord(k, v, c))
         /\ b_parts[k].matrix = IdentityMatrix =>
              At(b_positions[k], 3 * v + c) = InputCoord(k, v, c)
         /\ b_parts[k].matrix = TranslationMatrix =>
              At(b_positions[k], 3 * v + c) =
                Fround(InputCoord(k, v, c) + At(TranslationMatrix, 12 + c))

\* a part of two vertices placed by the pure translation has been baked
C18_Witness ==
  \E k \in 1..Len(b_positions) :
    /\ b_parts[k].matrix = TranslationMatrix
    /\ VertexCount(k) = 2
    /\ Len(b_positions[k]) = 6

\* C18 as stated: with the identity the output is the input, with a pure
\* translation every output coordinate equals input + translation, and in
\* general the output is the column-major affine product.
C18_BakedPositionsExact ==
  \A k \in 1..Len(b_positions) :
    \A v \in 0..(VertexCount(k) - 1), c \in 0..2 :
      /\ At(b_positions[k], 3 * v + c) = AffineCoord(k, v, c)
      /\ b_parts[k].matrix = TranslationMatrix =>
           At(b_positions[k], 3 * v + c) =
             InputCoord(k, v, c) + At(TranslationMatrix, 12 + c)

\* C19: every geometry handle acquired for a part has been released when the
\* processing moves on, in the mesh path and in the extent path, whether the
\* part could be read or not.
C19_HandlesReleased == b_pc.open = 0

\* the values an axis takes over the emitted vertices (a: 0, 1 or 2)
EmittedAlong(a) == {At(b_positions[kv[1]], 3 * kv[2] + a) : kv \in EmittedVertices}
\* the values an axis takes over the transformed vertices before they are stored
AffineAlong(a) == {AffineCoord(kv[1], kv[2], a) : kv \in EmittedVertices}
Least(S) == CHOOSE x \in S : \A y \in S : x <= y
Greatest(S) == CHOOSE x \in S : \A y \in S : x >= y
\* the record of the per-axis minima and maxima of three sets of values
ExtentOf(X, Y, Z) ==
  [is |-> "finite", minX |-> Least(X), minY |-> Least(Y), minZ |-> Least(Z),
   maxX |-> Greatest(X), maxY |-> Greatest(Y), maxZ |-> Greatest(Z)]
\* a record of bounds stored in single precision
FroundExtent(e) ==
  [is |-> e.is, minX |-> Fround(e.minX), minY |-> Fround(e.minY), minZ |-> Fround(e.minZ),
   maxX |-> Fround(e.maxX), maxY |-> Fround(e.maxY), maxZ |-> Fround(e.maxZ)]

-----------------------------------------------------------------------------
(* Properties of the viewer's toolbar, under SpecMeasure *)

\* what the viewer shows and remembers: the two toggles, the pending point and
\* its marker, the scene, the pick targets and the camera
ViewerState ==
  <<showDimensions, measureMode, measurePointRef, measurePreviewRef, scene,
    meshGroupRef, target, orbit, camera>>

\* a step that applies the dimension toggle right after the dimension toggle
DimensionToggleTwice == v_last = "dimensions" /\ v_last' = "dimensions"
\* a step that applies the measurement toggle right after the measurement toggle
MeasureToggleTwice ==
  /\ v_last \in {"measure-on", "measure-off"}
  /\ v_last' \in {"measure-on", "measure-off"}
\* a step that applies the clear action right after the clear action
ClearTwice == v_last \in {"clear", "clear-empty"} /\ v_last' = "clear-empty"

\* the second application of the dimension toggle changes nothing
DimensionToggleIdempotent ==
  [][DimensionToggleTwice => ViewerState' = ViewerState]_vars
\* the second application of the measurement toggle changes nothing
MeasureToggleIdempotent ==
  [][MeasureToggleTwice => ViewerState' = ViewerState]_vars
\* the second application of the clear action changes nothing
ClearIdempotent == [][ClearTwice => ViewerState' = ViewerState]_vars

\* C21: each of the dimension toggle, the measurement toggle and the clear
\* action is idempotent: applied right after itself it leaves the viewer in
\* the state its first application produced.
C21_ViewerActionsIdempotent ==
  [][DimensionToggleTwice \/ MeasureToggleTwice \/ ClearTwice
       => ViewerState' = ViewerState]_vars

-----------------------------------------------------------------------------
(* Properties of the aggregation pass, under SpecHier *)

\* the express id of the storey a parent stands for when its relation is
\* read: the parent itself when it is a discovered storey, else the storey it
\* is mapped to, else none
ParentStorey(p) ==
  IF p = NULL THEN NULL
  ELSE IF FindStorey(storeys, p) # 0 THEN p
  ELSE IF Has(elementToStorey, p) THEN elementToStorey[p]
  ELSE NULL

\* a step that reads the next aggregation relation (or fails to)
AggregateOpenStep ==
  h_pc = "aggregate" /\ (h_pc' = "aggregateRefs" \/ h_i' = h_i + 1)
\* a step that reads one child reference of the relation
AggregateRefStep == h_pc = "aggregateRefs" /\ h_refs' = h_refs + 1

\* the relation is entered exactly when its parent stands for a storey, and
\* then that storey is the target; reading the relation attaches nothing
RelationEntered ==
  /\ h_pc' = "aggregateRefs" <=> ParentStorey(h_parent') # NULL
  /\ h_pc' = "aggregateRefs" =>
       storeys[h_target'].expressID = ParentStorey(h_parent')
  /\ UNCHANGED <<storeys, elementToStorey>>

\* the child read is attached to the target of its relation, the parent's
\* storey, exactly when it is readable and not yet mapped
ChildAttached ==
  LET c == h_child'
      S == ParentStorey(h_parent)
  IN /\ storeys[h_target].expressID = S
     /\ h_target' = h_target
     /\ IF c # NULL /\ ~Has(elementToStorey, c)
        THEN /\ elementToStorey' = [elementToStorey EXCEPT ![c] = S]
             /\ storeys' = [storeys EXCEPT ![h_target].elementIDs = Append(@, c)]
        ELSE UNCHANGED <<storeys, elementToStorey>>

\* an element that is mapped keeps its storey and is pushed nowhere
FirstPassWins ==
  \A e \in ElemIds :
    Has(elementToStorey, e) =>
      /\ elementToStorey'[e] = elementToStorey[e]
      /\ \A k \in 1..Len(storeys) : OccurrencesIn(k, e)' = OccurrencesIn(k, e)

\* C22: in the aggregation pass a child is attached to storey S exactly when
\* it is not yet mapped and the parent of its relation is S or is mapped to S
\* when the relation is read; a mapped element is never added to another
\* storey; a relation whose parent stands for no storey when it is read is
\* passed over for good (the relations are read once, in order), whatever
\* is mapped later.
C22_AggregationAttachesUnmapped ==
  [][/\ AggregateOpenStep => RelationEntered
     /\ AggregateRefStep => ChildAttached
     /\ h_pc \in {"aggregate", "aggregateRefs"} =>
          /\ FirstPassWins
          /\ h_i' >= h_i
          /\ Len(storeys') = Len(storeys)]_vars

\* the second relation, whose parent is an element mapped by containment, has
\* just attached a child that no containment relation listed
C22_Witness ==
  /\ h_pc = "aggregateRefs"
  /\ h_i = 2
  /\ h_parent \in h_listed
  /\ h_child \in ElemIds \ h_listed
  /\ elementToStorey[h_child] = elementToStorey[h_parent]
  /\ \E k \in 1..Len(storeys) : OccurrencesIn(k, h_child) = 1

-----------------------------------------------------------------------------
(* Properties of the recovery from failing records, under SpecHier *)

\* a step that ends the building of the hierarchy
HierarchyReturned == h_pc # "done" /\ h_pc' = "done"
\* a step on which the lookup of a record failed or the record was passed
\* over: the pass goes on with the next record
RecordSkipped == h_pc' = h_pc /\ h_i' = h_i + 1

\* C23: a failing lookup of one storey, one containment relation or one
\* aggregation relation skips that record alone: the pass it is in goes on
\* with the next record and the later passes still run, so the hierarchy is
\* returned only from the end of the aggregation pass, after the storeys
\* were sorted; nothing is raised to the caller.
C23_FailureSkipsOneRecord ==
  [][/\ HierarchyReturned => h_pc = "aggregate"
     /\ h_pc = "storeys" /\ h_pc' # "storeys" =>
          h_pc' = "contain" /\ storeys' = SortByElevation(storeys)
     /\ RecordSkipped => UNCHANGED <<storeys, elementToStorey>>]_vars

-----------------------------------------------------------------------------
(* Properties of the traversal of the quantity resolver, under SpecQty *)

\* the record carries one of the candidate names, in whatever position, and a
\* numeric value
Matches(e) == e.name \in Range(q_names) /\ IsNumber(e.value)

\* no record read so far was a numeric match unless the resolver returned on
\* it, and a number returned is the value of the record read last
FirstNumericMatch ==
  /\ q_pc # "done" => ~Matches(q_seen)
  /\ q_pc = "done" =>
       IF Matches(q_seen) THEN q_result = q_seen.value ELSE q_result = NULL

\* the relations are taken one after the other, also after a failure; in one
\* property set the quantities are read before the properties
TraversalOrder ==
  /\ q_pc = "props" => q_pc' # "quantities"
  /\ q_seen' # q_seen =>
       \/ q_pc = "quantities" /\ q_seen'.kind = "quantity"
       \/ q_pc = "props" /\ q_seen'.kind = "property"
  /\ q_pc \in {"quantities", "props"} /\ q_pc' = "rel" => q_rels' = q_rels - 1
  /\ q_pc # "entity" /\ q_thrown' /\ ~q_thrown => q_pc' = "rel"

\* C24: extractQuantityFromPsets returns the first numeric value it meets:
\* relations in order, in a property set quantities before properties; a
\* record with a candidate name and no numeric value does not stop the
\* search; only the membership of a name in the candidate list counts, not
\* its position; after a relation that fails the later ones are searched.
C24_FirstNumericInTraversalOrder ==
  [][TraversalOrder /\ FirstNumericMatch']_vars

\* a relation failed, a later one was searched, its quantities gave nothing
\* and one of its properties, named by a candidate that is not the first of
\* the list, gave the number returned
C24_Witness ==
  /\ q_pc = "done"
  /\ q_thrown
  /\ q_seen.kind = "property"
  /\ q_seen.name # q_names[1]
  /\ q_result = q_seen.value
  /\ IsNumber(q_result)

-----------------------------------------------------------------------------
(* Properties of the perimeter, under SpecAgg *)

\* the positions, in discovery order, of the slabs that yield a bounding box
BoxedSlabs == {i \in 1..Len(SlabsOfFile) : SlabsOfFile[i].bb # NoBox}
\* the first of the slabs whose box has the lowest minimum Z
GroundSlab ==
  CHOOSE i \in BoxedSlabs :
    \A j \in BoxedSlabs :
      \/ SlabsOfFile[i].bb.minZ < SlabsOfFile[j].bb.minZ
      \/ SlabsOfFile[i].bb.minZ = SlabsOfFile[j].bb.minZ /\ i <= j

\* C25: the perimeter is null exactly when no slab yields a bounding box;
\* otherwise it is 2 * (width + height) of the XY extent, rounded to two
\* decimals, of the first slab among those whose box has the lowest minimum
\* Z, the slabs without a box being ignored.
C25_PerimeterOfLowestSlab ==
  a_pc = "done" =>
    IF BoxedSlabs = {} THEN perimeter = NULL
    ELSE LET bb == SlabsOfFile[GroundSlab].bb
         IN /\ perimeter # NULL
            /\ perimeter = Round2(2 * ((bb.maxX - bb.minX) + (bb.maxY - bb.minY)) * 100)

\* a slab without a box comes first, then two slabs as low as each other with
\* different footprints
C25_Witness ==
  /\ a_pc = "done"
  /\ \E i, j \in BoxedSlabs :
       /\ i < j
       /\ SlabsOfFile[i].bb.minZ = SlabsOfFile[j].bb.minZ
       /\ SlabsOfFile[i].bb # SlabsOfFile[j].bb
  /\ perimeter # NULL

-----------------------------------------------------------------------------
(* Properties of the orbit distance, under SpecOrbit *)

\* the distance the controller keeps and the distance the camera was placed
\* with are within the limits of the wheel zoom
DistanceInRange ==
  /\ DistMin <= distance /\ distance <= DistMax
  /\ DistMin <= camera.distance /\ camera.distance <= DistMax
  /\ distance > 0 /\ camera.distance > 0

\* only the wheel changes the distance: it multiplies it by 1 + deltaY / 1000,
\* keeps the result within the limits, places the camera with it and leaves
\* yaw, pitch and target alone
WheelScales ==
  /\ \E deltaY \in WheelDeltas :
       distance' = Max2(DistMin, Min2(DistMax, (distance * (1000 + deltaY)) \div 1000))
  /\ camera' = CameraAt(target, distance', rotX, rotY)
  /\ UNCHANGED <<rotX, rotY, target>>

\* C26: after any sequence of wheel, drag and model-load events the distance
\* the camera is placed with stays within [DistMin, DistMax] and is positive;
\* a wheel event scales it multiplicatively and changes neither yaw, pitch
\* nor target.
C26_DistanceClamped ==
  [][/\ DistanceInRange'
     /\ distance' # distance => WheelScales
     /\ camera'.distance = distance']_vars

\* a model whose largest dimension is more than half the upper limit is
\* loaded and the wheel has zoomed out to the upper limit
C26_Witness ==
  /\ v_meshes = ModelA
  /\ 2 * BoxMaxDim(v_meshes) > DistMax
  /\ distance = DistMax
  /\ camera.distance = DistMax
  /\ target = BoxCenter(v_meshes)

-----------------------------------------------------------------------------
(* Properties of the scene's contents, under SpecMeasure *)

\* a step that is neither the measurement toggle going off nor the clear action
KeepsAnnotations == v_last' \notin {"measure-off", "clear", "clear-empty"}

\* C27: a measurement annotation, once in the scene, stays in it through
\* picks, dimension toggles, storey selections and model loads, until the
\* measurement mode is toggled off or the clear action is applied.
C27_AnnotationPersists ==
  [][KeepsAnnotations =>
       \A o \in BagToSet(scene) :
         o.kind = "measurement" => CopiesIn(o, scene') >= CopiesIn(o, scene)]_vars

\* the overlay is on and there is a model to measure
OverlayShown == showDimensions /\ v_meshes # NoModel

\* C28: after any sequence of model loads, storey selections and dimension
\* toggles the scene holds the dimension geometry of the current bounding box
\* only: three extent indicators and one wireframe outline while the overlay
\* is on and the mesh list is not empty, none of either otherwise.
C28_DimensionGeometryCurrent ==
  /\ CountKind(scene, "dimension") = IF OverlayShown THEN 3 ELSE 0
  /\ CountKind(scene, "helper") = IF OverlayShown THEN 1 ELSE 0
  /\ \A o \in BagToSet(scene) :
       o.kind \in {"dimension", "helper"} => o.a = v_meshes.min /\ o.b = v_meshes.max

-----------------------------------------------------------------------------
(* Properties of the pick targets, under SpecMeasure *)

\* the pending point, its marker and the children of the scene
MeasurementState == <<measurePointRef, measurePreviewRef, scene>>

\* C29: a click registers a pick only in measurement mode and only when the
\* ray hits the mesh group of the current mesh list; a click on an
\* annotation, a marker, a dimension indicator, the wireframe or nothing at
\* all (also when no model is loaded) leaves the pending point, the marker
\* and the scene as they were.
C29_OnlyMeshesArePicked ==
  [][/\ MeasurementState' # MeasurementState /\ v_last' \in {"first", "second"} =>
          /\ measureMode = "picking"
          /\ meshGroupRef # NoObject
          /\ BagIn(meshGroupRef, scene)
          /\ meshGroupRef = MeshGroup(v_meshes)
     /\ v_last' \in {"miss", "measurement", "preview", "dimension", "helper"} =>
          MeasurementState' = MeasurementState]_vars

\* with a first point pending, the last click was on an annotation
C29_Witness ==
  /\ v_last = "measurement"
  /\ measureMode = "picking"
  /\ measurePointRef # NoPoint
  /\ BagIn(measurePreviewRef, scene)

-----------------------------------------------------------------------------
(* Properties of the pending first point, under SpecMeasure *)

\* C30: in every state of the viewer the scene holds a marker of a pending
\* first point exactly when a pending first point is recorded, and then it
\* is the marker of that point.
C30_MarkerIffPendingPoint ==
  /\ measurePointRef # NoPoint <=> CountKind(scene, "preview") > 0
  /\ measurePointRef # NoPoint =>
       /\ measurePreviewRef = PreviewGroup(measurePointRef)
       /\ BagIn(measurePreviewRef, scene)
       /\ CountKind(scene, "preview") = 1

====
